---- MODULE Spec2Model ----
(***************************************************************************)
(* The zone server's session coordinator (host() in server.ts, in its two  *)
(* revisions) and the playback engine it drives.                           *)
(*                                                                         *)
(* Revision 0 is the websocket coordinator (join message with a resume     *)
(* token; echo, auth and command as socket messages; media named by its    *)
(* source).  Revision 1 is the ticket coordinator (a ticket opens the      *)
(* socket; echo, authorize and command as HTTP routes; media named by      *)
(* queue item id).                                                         *)
(*                                                                         *)
(* Every handler runs to completion on the single event timeline, so a     *)
(* handler is one action.  Handlers are written as functions from a world  *)
(* record w (all mutable state) to the world after the handler.            *)
(***************************************************************************)
EXTENDS Integers, Sequences, FiniteSets

\* ------------------------------------------------------------- bounds
MaxUsers    == 2      \* user ids ever allocated
MaxSockets  == 2      \* sockets ever accepted
MaxTimers   == 2      \* grace timers pending at once
MaxItems    == 3      \* queue items ever created
MaxPending  == 1      \* media resolutions in flight at once
MaxTime     == 1      \* ticks of the playback clock followed

\* ------------------------------------------------- program constants
perUserQueueLimit == 3
EchoTextLimit     == 512

Nil       == 0
Users     == 1..MaxUsers
Sockets   == 1..MaxSockets
Tokens    == 1..MaxUsers
ItemIds   == 1..MaxItems
Ips       == {"ip1", "ip2"}
Names     == {"ann", "bob"}
Positions == {1, 2}
Sources   == {"A", "B"}
CloseCodes == {1000, 1001, 1006}
Passwords  == {"", "good", "bad"}
\* voteSkipThreshold as a fraction <<numerator, denominator>>
Thresholds == {<<3, 5>>, <<1, 2>>, <<1, 1>>}

VARIABLES
    revision,           \* which coordinator revision is running (0 or 1)
    opts,               \* host options
    lastUserId,
    user,               \* UserState objects by id, removed ones included
    zoneUsers,          \* keys of zone.users
    echoes,             \* zone.echoes: position -> echo
    shared,             \* positions whose echo holds its author's own tags array
    tokenToUser,
    userToToken,
    userToIp,
    connections,        \* userId -> Messaging
    userToConnections,  \* user -> set of Messaging ({} also where the entry is absent)
    socket,             \* per socket: phase, ip, bound user
    timers,             \* pending grace timers, oldest first
    bans,               \* keys of the ban table
    eventMode,
    skips,              \* the skip-vote set
    playback,           \* currentItem, queue, nextId
    pending,            \* queue requests awaiting media resolution
    probes,             \* queued items whose availability is being asked (revision 1)
    clock,              \* playback.currentTime, in ticks
    db,                 \* the snapshot store: playback, bans, echoes
    tickets,            \* names for which a join ticket was issued (revision 1)
    votes,              \* history: the ids whose vote reached voteSkip for the playing item
    op,                 \* history: the last handler, its user and its numeric input
    sent,               \* messages emitted by the last handler
    thrown              \* the last handler raised a TypeError

vars == <<revision, opts, lastUserId, user, zoneUsers, echoes, shared, tokenToUser,
          userToToken, userToIp, connections, userToConnections, socket,
          timers, bans, eventMode, skips, playback, pending, probes, clock, db, tickets,
          votes, op, sent, thrown>>

\* The world a handler starts in; the log of the previous handler is gone.
World ==
    [revision |-> revision, opts |-> opts, lastUserId |-> lastUserId,
     user |-> user, zoneUsers |-> zoneUsers, echoes |-> echoes, shared |-> shared,
     tokenToUser |-> tokenToUser, userToToken |-> userToToken,
     userToIp |-> userToIp, connections |-> connections,
     userToConnections |-> userToConnections, socket |-> socket,
     timers |-> timers, bans |-> bans, eventMode |-> eventMode,
     skips |-> skips, playback |-> playback, pending |-> pending,
     probes |-> probes, clock |-> clock, db |-> db,
     tickets |-> tickets, votes |-> votes, op |-> op,
     sent |-> <<>>, thrown |-> FALSE, refused |-> ""]

\* The state after a handler that leaves the world w.
Becomes(w) ==
    /\ revision' = w.revision
    /\ opts' = w.opts
    /\ lastUserId' = w.lastUserId
    /\ user' = w.user
    /\ zoneUsers' = w.zoneUsers
    /\ echoes' = w.echoes
    /\ shared' = w.shared
    /\ tokenToUser' = w.tokenToUser
    /\ userToToken' = w.userToToken
    /\ userToIp' = w.userToIp
    /\ connections' = w.connections
    /\ userToConnections' = w.userToConnections
    /\ socket' = w.socket
    /\ timers' = w.timers
    /\ bans' = w.bans
    /\ eventMode' = w.eventMode
    /\ skips' = w.skips
    /\ playback' = w.playback
    /\ pending' = w.pending
    /\ probes' = w.probes
    /\ clock' = w.clock
    /\ db' = w.db
    /\ tickets' = w.tickets
    /\ op' = w.op
    /\ votes' = IF w.playback.currentItem = playback.currentItem THEN w.votes ELSE {}
    /\ sent' = w.sent
    /\ thrown' = w.thrown

\* The world at the start of the handler `name`, run for `u` with input `arg`.
Run(name, u, arg) ==
    [World EXCEPT !.op = [name |-> name, user |-> u, arg |-> arg, password |-> "",
                          ip |-> ""]]

\* ---------------------------------------------------------------- maps
\* A JavaScript Map is a function whose domain is the set of its keys.
EmptyMap == <<>>
MapSet(m, k, v) == [x \in DOMAIN m \cup {k} |-> IF x = k THEN v ELSE m[x]]
MapDelete(m, k) == [x \in DOMAIN m \ {k} |-> m[x]]
MapValues(m) == {m[k] : k \in DOMAIN m}

\* ------------------------------------------------------------- records
\* new UserState(): no name, no position, no tags.
DefaultUser == [name |-> "", tags |-> <<>>, position |-> Nil]
NoItem == [itemId |-> Nil, media |-> [src |-> ""],
           info |-> [userId |-> Nil, ip |-> "", banger |-> FALSE]]
Includes(seq, x) == \E i \in 1..Len(seq) : seq[i] = x

\* ------------------------------------------------------------ messages
Msg(type, to, text, id) == [type |-> type, to |-> to, text |-> text, id |-> id]

\* sendAll: one send per entry of the connections table.
sendAll(w, type, text, id) ==
    IF w.thrown THEN w
    ELSE [w EXCEPT !.sent = Append(@,
            Msg(type, {w.connections[u] : u \in DOMAIN w.connections}, text, id))]

\* sendOnly: connections.get(userId)!.send(...); a missing entry is a TypeError.
sendOnly(w, type, text, id, userId) ==
    IF w.thrown THEN w
    ELSE IF userId \notin DOMAIN w.connections THEN [w EXCEPT !.thrown = TRUE]
    ELSE [w EXCEPT !.sent = Append(@, Msg(type, {w.connections[userId]}, text, id))]

\* A send on one Messaging object, outside the connections table.
sendSocket(w, s, type, text) ==
    [w EXCEPT !.sent = Append(@, Msg(type, {s}, text, 0))]

\* An HTTP response to the requester.
respond(w, code) ==
    IF w.thrown THEN w ELSE [w EXCEPT !.sent = Append(@, Msg("response", {}, "", code))]

status(w, text, userId) ==
    IF userId # Nil THEN sendOnly(w, "status", text, 0, userId)
    ELSE sendAll(w, "status", text, 0)


\* ----------------------------------------------------- playback engine
\* The coordinator's listeners on the playback engine's events.
emit(w, event, item) ==
    CASE event = "queue"   -> sendAll(w, "queue", "", item.itemId)
      [] event = "play"    -> [sendAll(w, "play", "", item.itemId) EXCEPT !.skips = {}]
      [] event = "stop"    -> sendAll(w, "play", "stop", 0)
      [] event = "unqueue" -> sendAll(w, "unqueue", "", item.itemId)

\* Promote the head of the queue to the playing item.
PlaybackPlayNext(w) ==
    LET item == Head(w.playback.queue)
    IN  emit([w EXCEPT !.playback.currentItem = item,
                       !.playback.queue = Tail(@),
                       !.clock = 0], "play", item)

\* queueMedia putting a banger at the head of the queue (mutant).
PlaybackQueueMediaFront(w, media, info) ==
    LET item == [itemId |-> w.playback.nextId, media |-> media, info |-> info]
        w1 == emit([w EXCEPT !.playback.queue =
                                IF info.banger THEN <<item>> \o @ ELSE Append(@, item),
                             !.playback.nextId = @ + 1], "queue", item)
    IN  IF w1.playback.currentItem = NoItem THEN PlaybackPlayNext(w1) ELSE w1

PlaybackQueueMedia(w, media, info) ==
    LET item == [itemId |-> w.playback.nextId, media |-> media, info |-> info]
        w1 == emit([w EXCEPT !.playback.queue = Append(@, item),
                             !.playback.nextId = @ + 1], "queue", item)
    IN  IF w1.playback.currentItem = NoItem THEN PlaybackPlayNext(w1) ELSE w1

PlaybackSkip(w) ==
    IF w.playback.queue # <<>> THEN PlaybackPlayNext(w)
    ELSE emit([w EXCEPT !.playback.currentItem = NoItem, !.clock = 0], "stop", NoItem)

PlaybackUnqueue(w, item) ==
    IF ~Includes(w.playback.queue, item) THEN w
    ELSE emit([w EXCEPT !.playback.queue = SelectSeq(@, LAMBDA q : q # item)],
              "unqueue", item)

\* ------------------------------------------------- coordinator helpers
addUserToken(w, u, token) ==
    [w EXCEPT !.tokenToUser = MapSet(@, token, u),
              !.userToToken = MapSet(@, u, token)]

\* revokeUserToken forgetting the token's own entry (mutant).
revokeUserTokenHalf(w, u) == [w EXCEPT !.userToToken = MapDelete(@, u)]

revokeUserToken(w, u) ==
    [w EXCEPT !.tokenToUser = IF u \in DOMAIN w.userToToken
                              THEN MapDelete(@, w.userToToken[u]) ELSE @,
              !.userToToken = MapDelete(@, u)]

addConnectionToUser(w, u, s) ==
    [w EXCEPT !.userToConnections[u] = @ \cup {s}]

removeConnectionFromUser(w, u, s) ==
    [w EXCEPT !.userToConnections[u] = @ \ {s}]

isUserConnectionless(w, u) == w.userToConnections[u] = {}

\* killUser leaving the user's token valid (mutant).
killUserKeepToken(w, u) ==
    LET w1 == IF u \in w.zoneUsers THEN sendAll(w, "leave", "", u) ELSE w
    IN  [w1 EXCEPT !.zoneUsers = @ \ {u},
                   !.connections = MapDelete(@, u),
                   !.userToConnections[u] = {}]

\* killUser announcing the departure whether or not the user is registered
\* (mutant).
killUserAnnounce(w, u) ==
    LET w1 == sendAll(w, "leave", "", u)
    IN  revokeUserToken(
            [w1 EXCEPT !.zoneUsers = @ \ {u},
                       !.connections = MapDelete(@, u),
                       !.userToConnections[u] = {}], u)

killUser(w, u) ==
    LET w1 == IF u \in w.zoneUsers THEN sendAll(w, "leave", "", u) ELSE w
    IN  revokeUserToken(
            [w1 EXCEPT !.zoneUsers = @ \ {u},
                       !.connections = MapDelete(@, u),
                       !.userToConnections[u] = {}], u)

\* skip that broadcasts the message and leaves the engine alone (mutant).
skipMessageOnly(w, message) == status(w, message, Nil)

skip(w, message) == PlaybackSkip(status(w, message, Nil))

\* ceil(n * num / den) for a threshold num/den
CeilMul(n, t) == (n * t[1] + t[2] - 1) \div t[2]

\* key is the media source (revision 0) or the item id (revision 1)
ItemKey(w, item) == IF w.revision = 0 THEN item.media.src ELSE item.itemId

\* voteSkip with the threshold test made strict (mutant).
voteSkipStrict(w, key, u) ==
    IF w.playback.currentItem = NoItem \/ ItemKey(w, w.playback.currentItem) # key THEN w
    ELSE LET w1 == [w EXCEPT !.skips = @ \cup {u}, !.votes = @ \cup {u},
                             !.op.name = "voteSkip",
                             !.op.arg = IF u \in w.skips THEN 1 ELSE 0]
             current == Cardinality(w1.skips)
             target == CeilMul(Cardinality(w1.zoneUsers), w1.opts.voteSkipThreshold)
         IN  IF current > target THEN skip(w1, "voted to skip")
             ELSE sendAll(w1, "status", "votes to skip", current)

\* voteSkip with the votes kept as a list, one entry per vote cast (mutant).
voteSkipList(w, key, u) ==
    IF w.playback.currentItem = NoItem \/ ItemKey(w, w.playback.currentItem) # key THEN w
    ELSE LET w1 == [w EXCEPT !.skips = @ \cup {u + MaxUsers * Cardinality(@)},
                             !.votes = @ \cup {u},
                             !.op.name = "voteSkip",
                             !.op.arg = IF u \in w.votes THEN 1 ELSE 0]
             current == Cardinality(w1.skips)
             target == CeilMul(Cardinality(w1.zoneUsers), w1.opts.voteSkipThreshold)
         IN  IF current >= target THEN skip(w1, "voted to skip")
             ELSE sendAll(w1, "status", "votes to skip", current)

\* op.arg notes whether the id was already in the set.
voteSkip(w, key, u) ==
    IF w.playback.currentItem = NoItem \/ ItemKey(w, w.playback.currentItem) # key THEN w
    ELSE LET w1 == [w EXCEPT !.skips = @ \cup {u}, !.votes = @ \cup {u},
                             !.op.name = "voteSkip",
                             !.op.arg = IF u \in w.skips THEN 1 ELSE 0]
             current == Cardinality(w1.skips)
             target == CeilMul(Cardinality(w1.zoneUsers), w1.opts.voteSkipThreshold)
         IN  IF current >= target THEN skip(w1, "voted to skip")
             ELSE sendAll(w1, "status", "votes to skip", current)

\* The state after host() returns, for the options drawn from the given sets.
\* The state after construction, for options drawn from the given sets.
InitOptions(revisions, thresholds, joinPasswords, authPasswords, limits) ==
    /\ revision \in revisions
    /\ opts \in [voteSkipThreshold : thresholds,
                 joinPassword : joinPasswords,
                 authPassword : authPasswords,
                 perUserQueueLimit : limits]
    /\ lastUserId = 0
    /\ user = [u \in Users |-> DefaultUser]
    /\ zoneUsers = {}
    /\ echoes = EmptyMap
    /\ shared = {}
    /\ tokenToUser = EmptyMap
    /\ userToToken = EmptyMap
    /\ userToIp = EmptyMap
    /\ connections = EmptyMap
    /\ userToConnections = [u \in Users |-> {}]
    /\ socket = [s \in Sockets |-> [phase |-> "new", ip |-> "", user |-> Nil]]
    /\ timers = <<>>
    /\ bans = {}
    /\ eventMode = FALSE
    /\ skips = {}
    /\ playback = [currentItem |-> NoItem, queue |-> <<>>, nextId |-> 1]
    /\ pending = {}
    /\ probes = {}
    /\ clock = 0
    /\ db = [playback |-> [current |-> NoItem, queue |-> <<>>, time |-> 0],
             bans |-> {}, echoes |-> {}]
    /\ tickets = {}
    /\ votes = {}
    /\ op = [name |-> "", user |-> Nil, arg |-> 0, password |-> "", ip |-> ""]
    /\ sent = <<>>
    /\ thrown = FALSE

\* The same with the default perUserQueueLimit.
InitWith(revisions, thresholds, joinPasswords, authPasswords) ==
    InitOptions(revisions, thresholds, joinPasswords, authPasswords, {perUserQueueLimit})

Init == InitOptions({0, 1}, Thresholds, {"", "good"}, {"", "good"}, {1, perUserQueueLimit})

\* ------------------------------------------------------------ sessions
Open(s) == socket[s].phase \in {"bound", "closing"}

sendCurrent(w, u) ==
    IF w.playback.currentItem # NoItem
    THEN sendOnly(w, "play", "", w.playback.currentItem.itemId, u)
    ELSE sendOnly(w, "play", "stop", 0, u)

sendCoreState(w, u) ==
    sendCurrent(sendOnly(sendOnly(w, "users", "", 0, u), "queue", "all", 0, u), u)

sendOtherState(w, u) == sendOnly(w, "echoes", "all", 0, u)

\* A resume is a rebind: it is noted on the grace timers pending for the user.
NoteRebind(w, u) ==
    [w EXCEPT !.timers = [i \in 1..Len(@) |->
        IF @[i].user = u THEN [@[i] EXCEPT !.rebound = TRUE] ELSE @[i]]]

\* zone.getUser(id) for an id never seen: a default user enters the registry.
getUser(w, u) ==
    IF u \in w.zoneUsers THEN w
    ELSE [w EXCEPT !.zoneUsers = @ \cup {u}, !.user[u] = DefaultUser]

\* From addUserToken to the end of the connection handler: bind the socket.
bindSocket(w, s, u, token, ip, announce) ==
    LET w1 == addConnectionToUser(addUserToken(w, u, token), u, s)
        w2 == [w1 EXCEPT !.userToIp = MapSet(@, u, ip),
                         !.op.user = u,
                         !.socket[s] = [phase |-> "bound", ip |-> ip, user |-> u],
                         !.connections = MapSet(@, u, s)]
        w3 == sendOnly(sendCoreState(w2, u), "assign", "", u, u)
        w4 == IF announce THEN sendAll(w3, "user", "join", u) ELSE w3
    IN  sendOtherState(w4, u)

\* waitJoin without the ban test (mutant).
waitJoinOpen(w, s, ip) ==
    [w EXCEPT !.socket[s] = [phase |-> "waiting", ip |-> ip, user |-> Nil]]

\* waitJoin, up to the registration of the join listener (revision 0).
waitJoin(w, s, ip) ==
    IF ip \in w.bans
    THEN [sendSocket(w, s, "reject", "you are banned")
            EXCEPT !.socket[s] = [phase |-> "closed", ip |-> ip, user |-> Nil]]
    ELSE [w EXCEPT !.socket[s] = [phase |-> "waiting", ip |-> ip, user |-> Nil]]

\* The join listener announcing a resumed user like a new one (mutant).
onJoinAnnounce(w, s, name, token, password) ==
    LET resume == token # Nil /\ token \in DOMAIN w.tokenToUser
        authorised == resume \/ w.opts.joinPassword = "" \/ password = w.opts.joinPassword
        ip == w.socket[s].ip
    IN  IF ~authorised
        THEN [sendSocket(w, s, "reject", "rejected: password required")
                EXCEPT !.socket[s].phase = "closed"]
        ELSE IF resume
        THEN LET u == w.tokenToUser[token]
             IN  bindSocket(NoteRebind([w EXCEPT !.user[u].name = name], u),
                            s, u, token, ip, TRUE)
        ELSE LET u == w.lastUserId + 1
                 w1 == getUser([w EXCEPT !.lastUserId = u], u)
             IN  bindSocket([w1 EXCEPT !.user[u].name = name], s, u, u, ip, TRUE)

\* The join listener taking the lowest id not in the registry (mutant).
onJoinReuse(w, s, name, token, password) ==
    LET resume == token # Nil /\ token \in DOMAIN w.tokenToUser
        authorised == resume \/ w.opts.joinPassword = "" \/ password = w.opts.joinPassword
        ip == w.socket[s].ip
    IN  IF ~authorised
        THEN [sendSocket(w, s, "reject", "rejected: password required")
                EXCEPT !.socket[s].phase = "closed"]
        ELSE IF resume
        THEN LET u == w.tokenToUser[token]
             IN  bindSocket(NoteRebind([w EXCEPT !.user[u].name = name], u),
                            s, u, token, ip, FALSE)
        ELSE LET u == CHOOSE x \in Users : x \notin w.zoneUsers /\ \A y \in Users \ w.zoneUsers : x <= y
                 w1 == getUser([w EXCEPT !.lastUserId = @ + 1], u)
             IN  bindSocket([w1 EXCEPT !.user[u].name = name], s, u, u, ip, TRUE)

\* The join listener of waitJoin (revision 0).
onJoin(w, s, name, token, password) ==
    LET resume == token # Nil /\ token \in DOMAIN w.tokenToUser
        authorised == resume \/ w.opts.joinPassword = "" \/ password = w.opts.joinPassword
        ip == w.socket[s].ip
    IN  IF ~authorised
        THEN [sendSocket(w, s, "reject", "rejected: password required")
                EXCEPT !.socket[s].phase = "closed"]
        ELSE IF resume
        THEN LET u == w.tokenToUser[token]
             IN  bindSocket(NoteRebind([w EXCEPT !.user[u].name = name], u),
                            s, u, token, ip, FALSE)
        ELSE LET u == w.lastUserId + 1
                 w1 == getUser([w EXCEPT !.lastUserId = u], u)
             IN  bindSocket([w1 EXCEPT !.user[u].name = name], s, u, u, ip, TRUE)

\* POST /zone/join (revision 1): a ticket carrying the name.
postZoneJoin(w, ip, name) ==
    IF ip \in w.bans THEN respond(w, 403)
    ELSE respond([w EXCEPT !.tickets = @ \cup {name}], 200)

\* ws /zone/:ticket (revision 1): every socket is a new user, announced to
\* the others before it enters the connections table.
onTicketSocket(w, s, ip, name) ==
    LET u == w.lastUserId + 1
        w1 == getUser([w EXCEPT !.lastUserId = u], u)
        w2 == sendAll([w1 EXCEPT !.user[u].name = name], "user", "join", u)
    IN  bindSocket(w2, s, u, u, ip, FALSE)

\* The close listener with only code 1000 taken as a clean exit (mutant).
onCloseNormalOnly(w, s, code) ==
    LET u == w.socket[s].user
        w1 == [removeConnectionFromUser(w, u, s) EXCEPT !.socket[s].phase = "closed"]
        cleanExit == code = 1000
    IN  IF cleanExit THEN killUser(w1, u)
        ELSE [w1 EXCEPT !.timers = Append(@, [user |-> u, rebound |-> FALSE])]

\* The close listener of a bound socket.
onClose(w, s, code) ==
    LET u == w.socket[s].user
        w1 == [removeConnectionFromUser(w, u, s) EXCEPT !.socket[s].phase = "closed"]
        cleanExit == code = 1000 \/ code = 1001
    IN  IF cleanExit THEN killUser(w1, u)
        ELSE [w1 EXCEPT !.timers = Append(@, [user |-> u, rebound |-> FALSE])]

\* The grace timer's callback with the test left out and nobody removed (mutant).
onTimeoutIdle(w) == [w EXCEPT !.timers = Tail(@)]

\* The grace timer's callback.
onTimeout(w) ==
    LET u == Head(w.timers).user
        w1 == [w EXCEPT !.timers = Tail(@)]
    IN  IF isUserConnectionless(w1, u) THEN killUser(w1, u) ELSE w1

\* The 'user' listener sending the rejection to everybody (mutant).
onUserRejectAll(w, u, changes) ==
    IF ~changes.valid THEN sendAll(w, "reject", "invalid", 0)
    ELSE sendAll([w EXCEPT
            !.user[u].name = IF changes.name # "" THEN changes.name ELSE @,
            !.user[u].position = IF changes.position # Nil THEN changes.position ELSE @],
            "user", "changes", u)

\* ------------------------------------------------------- user messages
\* The 'user' listener: changes.valid is the schema's verdict; a name of ""
\* or a position of Nil is a field the message does not carry.
onUser(w, u, changes) ==
    IF ~changes.valid THEN sendOnly(w, "reject", "invalid", 0, u)
    ELSE sendAll([w EXCEPT
            !.user[u].name = IF changes.name # "" THEN changes.name ELSE @,
            !.user[u].position = IF changes.position # Nil THEN changes.position ELSE @],
            "user", "changes", u)

\* user.tags.push / user.tags.splice: the array is changed in place, so every
\* echo that holds this array ({...user} copies the reference) shows the change.
setTags(w, u, tags) ==
    [w EXCEPT !.user[u].tags = tags,
              !.echoes = [p \in DOMAIN @ |->
                            IF p \in w.shared /\ @[p].userId = u
                            THEN [@[p] EXCEPT !.tags = tags] ELSE @[p]]]

\* Granting the admin tag, shared by the auth listener and POST /admin/authorize.
authorise(w, u) ==
    IF Includes(w.user[u].tags, "admin")
    THEN status(w, "you are already authorised", u)
    ELSE status(sendAll(setTags(w, u, Append(w.user[u].tags, "admin")), "user", "tags", u),
                "you are now authorised", u)

\* The 'auth' listener comparing the password as it came, an absent one
\* included (mutant).
onAuthPlain(w, u, password) ==
    IF password # w.opts.authPassword THEN w ELSE authorise(w, u)

\* The 'auth' listener (revision 0): (message.password || {}) !== opts.authPassword
onAuth(w, u, password) ==
    IF password = "" \/ password # w.opts.authPassword THEN w ELSE authorise(w, u)

\* POST /admin/authorize (revision 1)
postAuthorize(w, u, password) ==
    IF w.opts.authPassword = "" THEN respond(w, 501)
    ELSE IF password # w.opts.authPassword THEN respond(w, 403)
    ELSE respond(authorise(w, u), 200)

\* ------------------------------------------------------- admin commands
\* users.find(user => user.name === name): the first match in insertion order,
\* which is the order of the ids.
userByName(w, name) ==
    LET found == {u \in w.zoneUsers : w.user[u].name = name}
    IN  IF found = {} THEN Nil ELSE CHOOSE u \in found : \A v \in found : u <= v

RECURSIVE statusAuthedFrom(_, _, _)
statusAuthedFrom(w, text, u) ==
    IF u > MaxUsers THEN w
    ELSE statusAuthedFrom(
            IF u \in w.zoneUsers /\ Includes(w.user[u].tags, "admin")
            THEN status(w, text, u) ELSE w, text, u + 1)

statusAuthed(w, text) == statusAuthedFrom(w, text, 1)

Remove(seq, x) == SelectSeq(seq, LAMBDA y : y # x)

\* messaging.close(4001) on each channel of the user: the socket is closing
\* until its close event arrives.
closeChannels(w, channels, code) ==
    IF channels = {} THEN w
    ELSE [w EXCEPT !.sent = Append(@, Msg("close", channels, "", code)),
                   !.socket = [s \in Sockets |->
                        IF s \in channels /\ @[s].phase = "bound"
                        THEN [@[s] EXCEPT !.phase = "closing"] ELSE @[s]]]

commandBan(w, admin, u) ==
    LET ip == w.userToIp[u]
        w1 == status([w EXCEPT !.bans = @ \cup {ip}], "is banned", Nil)
    IN  closeChannels(w1, w.userToConnections[u], 4001)

commandSkip(w) ==
    IF w.playback.currentItem = NoItem THEN [w EXCEPT !.thrown = TRUE]
    ELSE skip(w, "admin skipped")

commandMode(w, mode) ==
    status([w EXCEPT !.eventMode = (mode = "event")], "event mode", Nil)

commandDjAdd(w, admin, u) ==
    IF Includes(w.user[u].tags, "dj") THEN status(w, "is already a dj", admin)
    ELSE statusAuthed(
            status(sendAll(setTags(w, u, Append(w.user[u].tags, "dj")), "user", "tags", u),
                   "you are a dj", u), "is a dj")

commandDjDel(w, admin, u) ==
    IF ~Includes(w.user[u].tags, "dj") THEN status(w, "isn't a dj", admin)
    ELSE statusAuthed(
            status(sendAll(setTags(w, u, Remove(w.user[u].tags, "dj")), "user", "tags", u),
                   "no longer a dj", u), "no longer a dj")

commandDespawn(w, admin, u) ==
    IF w.user[u].position = Nil THEN status(w, "isn't spawned", admin)
    ELSE statusAuthed(
            status(sendAll([w EXCEPT !.user[u].position = Nil], "user", "position", u),
                   "you were despawned by an admin", u), "has been despawned")

CommandNames == {"ban", "skip", "mode", "dj-add", "dj-del", "despawn", "nonesuch"}
TargetCommands == {"ban", "dj-add", "dj-del", "despawn"}

\* authCommands.get(name)(admin, arg); found is FALSE when a target command
\* names no registered user.
authCommand(w, admin, name, arg) ==
    LET u == userByName(w, arg)
    IN  CASE name = "skip" -> commandSkip(w)
          [] name = "mode" -> commandMode(w, arg)
          [] name \in TargetCommands /\ u = Nil ->
                IF w.revision = 0 THEN w ELSE [w EXCEPT !.thrown = TRUE]
          [] name = "ban" /\ u # Nil -> commandBan(w, admin, u)
          [] name = "dj-add" /\ u # Nil -> commandDjAdd(w, admin, u)
          [] name = "dj-del" /\ u # Nil -> commandDjDel(w, admin, u)
          [] name = "despawn" /\ u # Nil -> commandDespawn(w, admin, u)

\* The 'command' listener without the test of the caller's admin tag (mutant).
onCommandOpen(w, admin, name, arg) ==
    IF name \notin CommandNames \ {"nonesuch"} THEN status(w, "no command", admin)
    ELSE authCommand(w, admin, name, arg)

\* The 'command' listener (revision 0)
onCommand(w, admin, name, arg) ==
    IF ~Includes(w.user[admin].tags, "admin") THEN w
    ELSE IF name \notin CommandNames \ {"nonesuch"} THEN status(w, "no command", admin)
    ELSE authCommand(w, admin, name, arg)

\* POST /admin/command (revision 1): an error of the command is caught
postCommand(w, admin, name, arg) ==
    IF ~Includes(w.user[admin].tags, "admin") THEN respond(w, 403)
    ELSE IF name \notin CommandNames \ {"nonesuch"} THEN respond(w, 501)
    ELSE LET w1 == authCommand(w, admin, name, arg)
         IN  IF w1.thrown THEN respond([w1 EXCEPT !.thrown = FALSE], 503)
             ELSE respond(w1, 202)

\* --------------------------------------------------------------- echoes
Min(a, b) == IF a < b THEN a ELSE b

\* The echo handler with every actor taken as permitted (mutant).
onEchoOpen(w, u, text, position) ==
    LET echo == [userId |-> u, name |-> w.user[u].name, tags |-> w.user[u].tags,
                 position |-> position, text |-> Min(text, EchoTextLimit)]
        w1 == IF text > 0
              THEN sendAll([w EXCEPT !.echoes = MapSet(@, position, echo),
                            !.shared = @ \cup {position}],
                           "echoes", "added", position)
              ELSE sendAll([w EXCEPT !.echoes = MapDelete(@, position),
                            !.shared = @ \ {position}],
                           "echoes", "removed", position)
    IN  IF w.revision = 0 THEN w1 ELSE respond(w1, 201)

\* The echo handler storing an empty text instead of deleting (mutant).
onEchoKeep(w, u, text, position) ==
    LET admin == position \in DOMAIN w.echoes /\ Includes(w.echoes[position].tags, "admin")
        valid == ~admin \/ Includes(w.user[u].tags, "admin")
        echo == [userId |-> u, name |-> w.user[u].name, tags |-> w.user[u].tags,
                 position |-> position, text |-> Min(text, EchoTextLimit)]
    IN  IF ~valid
        THEN IF w.revision = 0 THEN status(w, "can't remove admin echo", u)
             ELSE respond(w, 403)
        ELSE LET w1 == sendAll([w EXCEPT !.echoes = MapSet(@, position, echo),
                            !.shared = @ \cup {position}],
                               "echoes", "added", position)
             IN  IF w.revision = 0 THEN w1 ELSE respond(w1, 201)

\* The 'echo' listener (revision 0) and POST /echoes (revision 1); text is the
\* length of the submitted text.
onEcho(w, u, text, position) ==
    LET admin == position \in DOMAIN w.echoes /\ Includes(w.echoes[position].tags, "admin")
        valid == ~admin \/ Includes(w.user[u].tags, "admin")
        echo == [userId |-> u, name |-> w.user[u].name, tags |-> w.user[u].tags,
                 position |-> position, text |-> Min(text, EchoTextLimit)]
    IN  IF ~valid
        THEN IF w.revision = 0 THEN status(w, "can't remove admin echo", u)
             ELSE respond(w, 403)
        ELSE LET w1 == IF text > 0
                       THEN sendAll([w EXCEPT !.echoes = MapSet(@, position, echo),
                            !.shared = @ \cup {position}],
                                    "echoes", "added", position)
                       ELSE sendAll([w EXCEPT !.echoes = MapDelete(@, position),
                            !.shared = @ \ {position}],
                                    "echoes", "removed", position)
             IN  IF w.revision = 0 THEN w1 ELSE respond(w1, 201)

\* ---------------------------------------------------------------- queue
mediaEquals(a, b) == a.src = b.src

\* In revision 0 a refusal of tryQueueMedia is a private status, in revision 1
\* it is an Error, noted in w.refused for the route that catches it.
refuse(w, text, u) ==
    IF w.revision = 0 THEN status(w, text, u) ELSE [w EXCEPT !.refused = text]

\* tryQueueMedia without the test for an equal pending item (mutant).
tryQueueMediaAgain(w, u, media, banger) ==
    IF w.eventMode /\ ~Includes(w.user[u].tags, "dj")
    THEN refuse(w, "only djs may queue", u)
    ELSE LET userIp == w.userToIp[u]
             count == Len(SelectSeq(w.playback.queue, LAMBDA item : item.info.ip = userIp))
             dj == w.eventMode /\ Includes(w.user[u].tags, "dj")
         IN  IF ~dj /\ count >= w.opts.perUserQueueLimit
             THEN refuse(w, "you already have videos in the queue", u)
             ELSE PlaybackQueueMedia(w, media,
                    [userId |-> u, ip |-> userIp, banger |-> banger])

\* tryQueueMedia without the per-address limit (mutant).
tryQueueMediaUnlimited(w, u, media, banger) ==
    IF w.eventMode /\ ~Includes(w.user[u].tags, "dj")
    THEN refuse(w, "only djs may queue", u)
    ELSE LET userIp == w.userToIp[u]
             existing == \E i \in 1..Len(w.playback.queue) :
                            mediaEquals(w.playback.queue[i].media, media)
         IN  IF existing THEN refuse(w, "is already queued", u)
             ELSE PlaybackQueueMedia(w, media,
                    [userId |-> u, ip |-> userIp, banger |-> banger])

\* tryQueueMedia without the refusal of those who are not djs in event mode
\* (mutant).
tryQueueMediaAnyone(w, u, media, banger) ==
    LET userIp == w.userToIp[u]
        existing == \E i \in 1..Len(w.playback.queue) :
                       mediaEquals(w.playback.queue[i].media, media)
        count == Len(SelectSeq(w.playback.queue, LAMBDA item : item.info.ip = userIp))
        dj == w.eventMode /\ Includes(w.user[u].tags, "dj")
    IN  IF existing THEN refuse(w, "is already queued", u)
        ELSE IF ~dj /\ count >= w.opts.perUserQueueLimit
        THEN refuse(w, "you already have videos in the queue", u)
        ELSE PlaybackQueueMedia(w, media,
               [userId |-> u, ip |-> userIp, banger |-> banger])

\* tryQueueMedia
tryQueueMedia(w, u, media, banger) ==
    IF w.eventMode /\ ~Includes(w.user[u].tags, "dj")
    THEN refuse(w, "only djs may queue", u)
    ELSE LET userIp == w.userToIp[u]
             existing == \E i \in 1..Len(w.playback.queue) :
                            mediaEquals(w.playback.queue[i].media, media)
             count == Len(SelectSeq(w.playback.queue, LAMBDA item : item.info.ip = userIp))
             dj == w.eventMode /\ Includes(w.user[u].tags, "dj")
         IN  IF existing THEN refuse(w, "is already queued", u)
             ELSE IF ~dj /\ count >= w.opts.perUserQueueLimit
             THEN refuse(w, "you already have videos in the queue", u)
             ELSE PlaybackQueueMedia(w, media,
                    [userId |-> u, ip |-> userIp, banger |-> banger])

\* POST /queue and POST /queue/banger up to the await of the media lookup.
postQueue(w, u, src, banger) ==
    LET request == [userId |-> u, src |-> src, banger |-> banger]
    IN  IF w.revision = 0
        THEN LET w1 == IF banger THEN w ELSE status(w, "you tested the command", u)
             IN  IF w1.thrown THEN w1
                 ELSE respond([w1 EXCEPT !.pending = @ \cup {request}], 202)
        ELSE [w EXCEPT !.pending = @ \cup {request}]

\* The continuation after the lookup; found is the media or NoItem.media.
resolveQueue(w, request, found) ==
    LET w0 == [w EXCEPT !.pending = @ \ {request}]
        u == request.userId
    IN  IF w.revision = 0
        THEN IF found = NoItem.media THEN w0
             ELSE tryQueueMedia(w0, u, found, request.banger)
        ELSE IF found = NoItem.media
             THEN respond(w0, IF request.banger THEN 503 ELSE 400)
             ELSE LET w1 == tryQueueMedia(w0, u, found, request.banger)
                  IN  IF w1.refused # "" THEN respond(w1, IF request.banger THEN 403 ELSE 400)
                      ELSE respond(w1, 202)

\* POST /queue/skip
postSkip(w, u, key) ==
    IF w.playback.currentItem = NoItem \/ ItemKey(w, w.playback.currentItem) # key
    THEN IF w.revision = 0 THEN w ELSE respond(w, 404)
    ELSE IF ~w.eventMode THEN respond(voteSkip(w, key, u), 202)
    ELSE IF Includes(w.user[u].tags, "dj")
    THEN respond(skip(w, "skipped"), IF w.revision = 0 THEN 202 ELSE 204)
    ELSE IF w.revision = 0
    THEN respond(status(w, "can't skip during event mode", u), 202)
    ELSE respond(w, 403)

\* DELETE /queue/:itemId looking for the item among the playing one too, and
\* ending it (mutant).
deleteQueueCurrent(w, u, itemId) ==
    IF w.playback.currentItem # NoItem /\ w.playback.currentItem.itemId = itemId
    THEN respond(PlaybackSkip(w), IF w.revision = 0 THEN 202 ELSE 204)
    ELSE LET found == {i \in 1..Len(w.playback.queue) : w.playback.queue[i].itemId = itemId}
         IN  IF found = {} THEN IF w.revision = 0 THEN w ELSE respond(w, 404)
             ELSE respond(PlaybackUnqueue(w, w.playback.queue[CHOOSE i \in found : TRUE]),
                          IF w.revision = 0 THEN 202 ELSE 204)

\* DELETE /queue/:itemId without the test of who asks (mutant).
deleteQueueAnyone(w, u, itemId) ==
    LET found == {i \in 1..Len(w.playback.queue) : w.playback.queue[i].itemId = itemId}
    IN  IF found = {} THEN IF w.revision = 0 THEN w ELSE respond(w, 404)
        ELSE respond(PlaybackUnqueue(w, w.playback.queue[CHOOSE i \in found : TRUE]),
                     IF w.revision = 0 THEN 202 ELSE 204)

\* DELETE /queue/:itemId
deleteQueue(w, u, itemId) ==
    LET found == {i \in 1..Len(w.playback.queue) : w.playback.queue[i].itemId = itemId}
    IN  IF found = {} THEN IF w.revision = 0 THEN w ELSE respond(w, 404)
        ELSE LET item == w.playback.queue[CHOOSE i \in found : TRUE]
                 dj == w.eventMode /\ Includes(w.user[u].tags, "dj")
                 own == item.info.userId = u
                 auth == Includes(w.user[u].tags, "admin")
             IN  IF dj \/ own \/ auth
                 THEN respond(PlaybackUnqueue(w, item), IF w.revision = 0 THEN 202 ELSE 204)
                 ELSE respond(w, IF w.revision = 0 THEN 202 ELSE 403)

\* checkQueue up to the awaits: one availability question per queued item.
checkQueue(w) ==
    [w EXCEPT !.probes = @ \cup {w.playback.queue[i] : i \in 1..Len(w.playback.queue)}]

\* The continuation of checkQueue for one item that also skips the playing
\* item when the answer is 'failed' (mutant).
onStatusSkip(w, item, answer) ==
    LET w0 == [w EXCEPT !.probes = @ \ {item}]
    IN  IF answer = "failed"
        THEN skip(PlaybackUnqueue(w0, item), "failed to load")
        ELSE w0

\* The continuation of checkQueue for one item, once getMediaStatus answers.
onStatus(w, item, answer) ==
    LET w0 == [w EXCEPT !.probes = @ \ {item}]
    IN  IF answer = "failed"
        THEN status(PlaybackUnqueue(w0, item), "failed to load", Nil)
        ELSE w0

\* The listener on the engine's 'failed' event.
onFailed(w, item) == skip(w, "video failed to load")

\* The middlewares without the test that the token resolves to a user
\* (mutant).
RefusalNoToken(w, ip, token) ==
    IF w.revision = 1 /\ ip \in w.bans THEN 403 ELSE 0

\* ---------------------------------------------------------- snapshots
\* Playback.copyState: the playing item, the pending queue, the elapsed time.
PlaybackCopyState(w) ==
    [current |-> w.playback.currentItem, queue |-> w.playback.queue, time |-> w.clock]

\* The largest item id of a snapshot, 0 when it holds no item.
LastItemId(data) ==
    LET ids == {data.current.itemId} \cup {data.queue[i].itemId : i \in 1..Len(data.queue)}
    IN  CHOOSE n \in ids : \A m \in ids : m <= n

\* Playback.loadState: the snapshot restored as it is, the clock set to the
\* saved time; the ids given next follow those of the snapshot.
PlaybackLoadState(w, data) ==
    [w EXCEPT !.playback = [currentItem |-> data.current, queue |-> data.queue,
                            nextId |-> LastItemId(data) + 1],
              !.clock = data.time]

\* save without the ban table (mutant).
saveNoBans(w) ==
    [w EXCEPT !.db = [playback |-> PlaybackCopyState(w),
                      bans |-> @.bans,
                      echoes |-> MapValues(w.echoes)]]

\* save: the three documents written to the store; a ban is kept as its
\* record, of which the model follows the ip.
save(w) ==
    [w EXCEPT !.db = [playback |-> PlaybackCopyState(w),
                      bans |-> {[ip |-> ip] : ip \in w.bans},
                      echoes |-> MapValues(w.echoes)]]

\* load: bans are set by their ip, echoes by their position after a clear.
load(w) ==
    LET w1 == PlaybackLoadState(w, w.db.playback)
    IN  [w1 EXCEPT !.bans = @ \cup {ban.ip : ban \in w.db.bans},
                   !.echoes = [p \in {echo.position : echo \in w.db.echoes} |->
                                 CHOOSE echo \in w.db.echoes : echo.position = p]]

\* host() called anew on the store the last process left: every table empty,
\* then load().
host(w) ==
    load([w EXCEPT !.lastUserId = 0,
                   !.user = [u \in Users |-> DefaultUser],
                   !.zoneUsers = {},
                   !.echoes = EmptyMap,
                   !.shared = {},
                   !.tokenToUser = EmptyMap,
                   !.userToToken = EmptyMap,
                   !.userToIp = EmptyMap,
                   !.connections = EmptyMap,
                   !.userToConnections = [u \in Users |-> {}],
                   !.socket = [s \in Sockets |-> [phase |-> "new", ip |-> "", user |-> Nil]],
                   !.timers = <<>>,
                   !.bans = {},
                   !.eventMode = FALSE,
                   !.skips = {},
                   !.playback = [currentItem |-> NoItem, queue |-> <<>>, nextId |-> 1],
                   !.pending = {},
                   !.probes = {},
                   !.clock = 0,
                   !.tickets = {},
                   !.votes = {}])

\* requireNotBanned (revision 1) and requireUserToken: the response that
\* refuses the request, or 0 when the route handler runs.
Refusal(w, ip, token) ==
    IF w.revision = 1 /\ ip \in w.bans THEN 403
    ELSE IF token \notin DOMAIN w.tokenToUser THEN 401
    ELSE 0

\* ------------------------------------------------------------- actions
NextSocket(s) ==
    /\ socket[s].phase = "new"
    /\ IF s = 1 THEN TRUE ELSE socket[s - 1].phase # "new"

SocketArrive(s, ip) ==
    /\ revision = 0
    /\ NextSocket(s)
    /\ Becomes(waitJoin(Run("waitJoin", Nil, s), s, ip))

JoinMessage(s, name, token, password) ==
    /\ revision = 0
    /\ socket[s].phase = "waiting"
    /\ (token # Nil /\ token \in DOMAIN tokenToUser) \/ lastUserId < MaxUsers
    /\ Becomes(onJoin([Run("join", Nil, token) EXCEPT !.op.password = password],
                      s, name, token, password))

SocketClose(s, code) ==
    /\ Open(s)
    /\ code \in {1000, 1001} \/ Len(timers) < MaxTimers
    /\ Becomes(onClose(Run("close", socket[s].user, code), s, code))

TimerFire ==
    /\ timers # <<>>
    /\ Becomes(onTimeout(Run("timeout", Head(timers).user, 0)))

PostZoneJoin(ip, name) ==
    /\ revision = 1
    /\ Becomes(postZoneJoin(Run("ticket", Nil, 0), ip, name))

TicketSocket(s, ip, name) ==
    /\ revision = 1
    /\ NextSocket(s)
    /\ ip \notin bans
    /\ name \in tickets
    /\ lastUserId < MaxUsers
    /\ Becomes(onTicketSocket(Run("join", Nil, Nil), s, ip, name))

UserChanges ==
    {[valid |-> FALSE, name |-> "", position |-> Nil]}
    \cup {[valid |-> TRUE, name |-> n, position |-> Nil] : n \in Names}
    \cup {[valid |-> TRUE, name |-> "", position |-> p] : p \in Positions}

UserMessage(s, changes) ==
    /\ Open(s)
    /\ Becomes(onUser(Run("user", socket[s].user, IF changes.valid THEN 1 ELSE 0),
                      socket[s].user, changes))

AuthMessage(s, password) ==
    /\ revision = 0
    /\ Open(s)
    /\ Becomes(onAuth([Run("auth", socket[s].user, 0) EXCEPT !.op.password = password],
                      socket[s].user, password))

CommandMessage(s, name, arg) ==
    /\ revision = 0
    /\ Open(s)
    /\ Becomes(onCommand(Run("command", socket[s].user, <<name, arg>>),
                         socket[s].user, name, arg))

EchoMessage(s, text, position) ==
    /\ revision = 0
    /\ Open(s)
    /\ Becomes(onEcho(Run("echo", socket[s].user, <<text, position>>),
                      socket[s].user, text, position))

\* request.user = tokenToUser.get(token): the user, or Nil for undefined.
RequestUser(token) ==
    IF token \in DOMAIN tokenToUser THEN tokenToUser[token] ELSE Nil

\* The world at the start of the route `name`, for a request from the address
\* ip that bears the token.
Request(name, ip, token, arg) ==
    [Run(name, RequestUser(token), arg) EXCEPT !.op.ip = ip]

\* An HTTP request that a middleware refuses.
HttpRefused(ip, token) ==
    /\ Refusal(World, ip, token) # 0
    /\ Becomes(respond([Run("refused", Nil, <<ip, token>>) EXCEPT !.op.ip = ip],
                       Refusal(World, ip, token)))

HttpAuthorize(ip, token, password) ==
    /\ revision = 1
    /\ Refusal(World, ip, token) = 0
    /\ Becomes(postAuthorize([Request("auth", ip, token, 0) EXCEPT !.op.password = password],
                             RequestUser(token), password))

HttpCommand(ip, token, name, arg) ==
    /\ revision = 1
    /\ Refusal(World, ip, token) = 0
    /\ Becomes(postCommand(Request("command", ip, token, <<name, arg>>),
                           RequestUser(token), name, arg))

HttpEcho(ip, token, text, position) ==
    /\ revision = 1
    /\ Refusal(World, ip, token) = 0
    /\ Becomes(onEcho(Request("echo", ip, token, <<text, position>>),
                      RequestUser(token), text, position))

HttpQueue(ip, token, src, banger) ==
    /\ Refusal(World, ip, token) = 0
    /\ Cardinality(pending) < MaxPending
    /\ Becomes(postQueue(Request("queue", ip, token, 0), RequestUser(token), src, banger))

\* The media lookup answers: the media asked for (any media of the library
\* for a banger), or nothing.
MediaResolved(request, found) ==
    /\ request \in pending
    /\ request.banger \/ found.src \in {"", request.src}
    /\ playback.nextId <= MaxItems
    /\ Becomes(resolveQueue(Run("resolved", request.userId, found.src), request, found))

SkipKeys == IF revision = 0 THEN Sources ELSE ItemIds

HttpSkip(ip, token, key) ==
    /\ Refusal(World, ip, token) = 0
    /\ Becomes(postSkip(Request("skip", ip, token, key), RequestUser(token), key))

HttpDelete(ip, token, itemId) ==
    /\ Refusal(World, ip, token) = 0
    /\ Becomes(deleteQueue(Request("delete", ip, token, itemId), RequestUser(token), itemId))

\* The playing item reaches its end: the engine's own timer skips it.
PlaybackFinish ==
    /\ playback.currentItem # NoItem
    /\ Becomes(PlaybackSkip(Run("finish", Nil, 0)))

\* The interval timer runs checkQueue; one round of questions at a time.
CheckQueue ==
    /\ revision = 1
    /\ probes = {}
    /\ playback.queue # <<>>
    /\ Becomes(checkQueue(Run("check", Nil, 0)))

MediaStatuses == {"available", "failed"}

StatusAnswered(item, answer) ==
    /\ item \in probes
    /\ Becomes(onStatus(Run("status", Nil, <<item.itemId, answer>>), item, answer))

\* The engine reports that an item it holds failed to load.
PlaybackFailed(item) ==
    /\ item # NoItem
    /\ item = playback.currentItem \/ Includes(playback.queue, item)
    /\ Becomes(onFailed(Run("failed", Nil, item.itemId), item))

\* The clock of the playing item advances.
Tick ==
    /\ playback.currentItem # NoItem
    /\ clock < MaxTime
    /\ Becomes([Run("tick", Nil, 0) EXCEPT !.clock = @ + 1])

\* The caller's interval timer saves the state.
Save == Becomes(save(Run("save", Nil, 0)))

\* The process ends and a new one starts on the same store.
Restart == Becomes(host(Run("restart", Nil, 0)))

AnyToken == {Nil} \cup Tokens
EchoTexts == {0, 1, EchoTextLimit + 1}
Medias == {[src |-> x] : x \in Sources}

\* The handlers grouped by what the clients do, for inputs drawn from the
\* given sets.
Joining(ips, names, passwords) ==
    \/ \E s \in Sockets, ip \in ips : SocketArrive(s, ip)
    \/ \E s \in Sockets, name \in names, token \in AnyToken, password \in passwords :
          JoinMessage(s, name, token, password)

Ticketing(ips, names) ==
    \/ \E ip \in ips, name \in names : PostZoneJoin(ip, name)
    \/ \E s \in Sockets, ip \in ips, name \in names : TicketSocket(s, ip, name)

Leaving ==
    \/ \E s \in Sockets, code \in CloseCodes : SocketClose(s, code)
    \/ TimerFire

Queueing(ips, sources) ==
    \/ \E ip \in ips, token \in AnyToken, src \in sources :
          HttpQueue(ip, token, src, FALSE)
    \/ \E request \in pending, found \in {[src |-> x] : x \in sources} \cup {NoItem.media} :
          MediaResolved(request, found)
    \/ \E ip \in ips, token \in AnyToken, itemId \in ItemIds : HttpDelete(ip, token, itemId)
    \/ PlaybackFinish

\* The periodic check of the queued media and its answers.
Checking ==
    \/ CheckQueue
    \/ \E item \in probes, answer \in MediaStatuses : StatusAnswered(item, answer)

Failing ==
    \E item \in {playback.currentItem} \cup {playback.queue[i] : i \in 1..Len(playback.queue)} :
        PlaybackFailed(item)

Persisting ==
    \/ Tick
    \/ Save
    \/ Restart

Bangers(ips) == \E ip \in ips, token \in AnyToken : HttpQueue(ip, token, "", TRUE)

Voting(ips) ==
    \E ip \in ips, token \in AnyToken, key \in SkipKeys : HttpSkip(ip, token, key)

Authorising(ips) ==
    \/ \E s \in Sockets, password \in Passwords : AuthMessage(s, password)
    \/ \E ip \in ips, token \in AnyToken, password \in Passwords :
          HttpAuthorize(ip, token, password)

Commanding(ips, names, args) ==
    \/ \E s \in Sockets, name \in names, arg \in args : CommandMessage(s, name, arg)
    \/ \E ip \in ips, token \in AnyToken, name \in names, arg \in args :
          HttpCommand(ip, token, name, arg)

Echoing(ips) ==
    \/ \E s \in Sockets, text \in EchoTexts, position \in Positions :
          EchoMessage(s, text, position)
    \/ \E ip \in ips, token \in AnyToken, text \in EchoTexts, position \in Positions :
          HttpEcho(ip, token, text, position)

Updating(changes) == \E s \in Sockets, c \in changes : UserMessage(s, c)

Refusing(ips) == \E ip \in ips, token \in AnyToken : HttpRefused(ip, token)

Next ==
    \/ Joining(Ips, Names, Passwords)
    \/ Ticketing(Ips, Names)
    \/ Leaving
    \/ Queueing(Ips, Sources)
    \/ Bangers(Ips)
    \/ Voting(Ips)
    \/ Authorising(Ips)
    \/ Commanding(Ips, CommandNames, Names \cup {"event", "open"})
    \/ Echoing(Ips)
    \/ Updating(UserChanges)
    \/ Refusing(Ips)
    \/ Checking
    \/ Failing
    \/ Persisting

Spec == Init /\ [][Next]_vars

\* Participants who come and go, queue media and vote to skip; nobody is an
\* admin, so event mode stays off.
VoteNext ==
    \/ Joining({"ip1"}, {"ann"}, {""})
    \/ Ticketing({"ip1"}, {"ann"})
    \/ Leaving
    \/ Queueing({"ip1"}, {"A"})
    \/ Voting({"ip1"})

VoteSpec == InitWith({0, 1}, Thresholds, {""}, {""}) /\ [][VoteNext]_vars

\* Participants who join, resume, drop and leave, and admins who ban; no
\* media is queued.
SessionNext ==
    \/ Joining(Ips, Names, {""})
    \/ Ticketing(Ips, Names)
    \/ Leaving
    \/ Authorising(Ips)
    \/ Commanding(Ips, {"ban"}, Names)

SessionSpec == InitWith({0, 1}, {<<3, 5>>}, {""}, {"good"}) /\ [][SessionNext]_vars

\* The sessions, with HTTP requests that the middlewares refuse.
TokenNext ==
    \/ SessionNext
    \/ Refusing(Ips)

TokenSpec == InitWith({0, 1}, {<<3, 5>>}, {""}, {"good"}) /\ [][TokenNext]_vars

\* Event mode: admins who switch the mode and name djs, participants of one
\* address who queue media under a limit of one item per address and skip.
EventNext ==
    \/ Joining({"ip1"}, {"ann"}, {""})
    \/ Ticketing({"ip1"}, {"ann"})
    \/ \E s \in Sockets : AuthMessage(s, "good")
    \/ \E token \in Tokens : HttpAuthorize("ip1", token, "good")
    \/ Commanding({"ip1"}, {"mode"}, {"event", "open"})
    \/ Commanding({"ip1"}, {"dj-add"}, {"ann"})
    \/ \E token \in Tokens, src \in Sources : HttpQueue("ip1", token, src, FALSE)
    \/ Bangers({"ip1"})
    \/ \E request \in pending, found \in Medias : MediaResolved(request, found)

EventSpec == InitOptions({0, 1}, {<<3, 5>>}, {""}, {"good"}, {1}) /\ [][EventNext]_vars

\* Event mode: admins who switch the mode and name djs, participants who
\* queue one media and ask to skip.
EventSkipNext ==
    \/ Joining({"ip1"}, {"ann"}, {""})
    \/ Ticketing({"ip1"}, {"ann"})
    \/ \E s \in Sockets : AuthMessage(s, "good")
    \/ \E token \in Tokens : HttpAuthorize("ip1", token, "good")
    \/ Commanding({"ip1"}, {"mode"}, {"event", "open"})
    \/ Commanding({"ip1"}, {"dj-add"}, {"ann"})
    \/ \E token \in Tokens : HttpQueue("ip1", token, "A", FALSE)
    \/ \E request \in pending : MediaResolved(request, [src |-> request.src])
    \/ Voting({"ip1"})

EventSkipSpec == InitWith({0, 1}, {<<3, 5>>}, {""}, {"good"}) /\ [][EventSkipNext]_vars

\* Admins and others who send every command, at users who moved and while
\* the one media queued plays; the name "bob" is nobody's.
AdminNext ==
    \/ Joining({"ip1"}, {"ann"}, {""})
    \/ Ticketing({"ip1"}, {"ann"})
    \/ \E s \in Sockets : AuthMessage(s, "good")
    \/ \E token \in Tokens : HttpAuthorize("ip1", token, "good")
    \/ Updating({[valid |-> TRUE, name |-> "", position |-> 1]})
    \/ Commanding({"ip1"}, CommandNames, {"ann", "bob", "event"})
    \/ \E token \in Tokens : playback.nextId = 1 /\ HttpQueue("ip1", token, "A", FALSE)
    \/ \E request \in pending : MediaResolved(request, [src |-> request.src])

AdminSpec == InitWith({0, 1}, {<<3, 5>>}, {""}, {"good"}) /\ [][AdminNext]_vars

\* Revision 0 with a join password configured: joins with no password, the
\* right one or a wrong one, with and without a token.
PasswordNext ==
    \/ Joining({"ip1"}, {"ann"}, Passwords)
    \/ Leaving

PasswordSpec == InitWith({0}, {<<3, 5>>}, {"good"}, {""}) /\ [][PasswordNext]_vars

\* Revision 0: participants who authorise, move and queue media, drop and
\* resume with their token.
ResumeNext ==
    \/ Joining({"ip1"}, Names, {""})
    \/ Leaving
    \/ \E s \in Sockets : AuthMessage(s, "good")
    \/ Updating({[valid |-> TRUE, name |-> "", position |-> 1]})
    \/ \E token \in Tokens : HttpQueue("ip1", token, "A", FALSE)
    \/ \E request \in pending : MediaResolved(request, [src |-> "A"])

ResumeSpec == InitWith({0}, {<<3, 5>>}, {""}, {"good"}) /\ [][ResumeNext]_vars

\* Participants of one address who queue media of two sources, the periodic
\* check of the queued media, and the engine's reports of failure.
HealthNext ==
    \/ Joining({"ip1"}, {"ann"}, {""})
    \/ Ticketing({"ip1"}, {"ann"})
    \/ \E token \in Tokens, src \in Sources : HttpQueue("ip1", token, src, FALSE)
    \/ \E request \in pending : MediaResolved(request, [src |-> request.src])
    \/ Voting({"ip1"})
    \/ PlaybackFinish
    \/ Checking
    \/ Failing

HealthSpec == InitWith({0, 1}, {<<1, 1>>}, {""}, {""}) /\ [][HealthNext]_vars

\* Participants who come and go and send updates of their name and position,
\* some of which the schema rejects.
UpdateNext ==
    \/ Joining({"ip1"}, {"ann"}, {""})
    \/ Ticketing({"ip1"}, {"ann"})
    \/ Leaving
    \/ Updating(UserChanges)

UpdateSpec == InitWith({0, 1}, {<<3, 5>>}, {""}, {""}) /\ [][UpdateNext]_vars

\* Two participants, of whom some authorise as admins, switch the mode and
\* name djs, who queue one media and ask to delete queued items.
DeleteNext ==
    \/ Joining({"ip1"}, {"ann"}, {""})
    \/ Ticketing({"ip1"}, {"ann"})
    \/ \E s \in Sockets : AuthMessage(s, "good")
    \/ \E token \in Tokens : HttpAuthorize("ip1", token, "good")
    \/ Commanding({"ip1"}, {"mode"}, {"event", "open"})
    \/ Commanding({"ip1"}, {"dj-add"}, {"ann"})
    \/ \E token \in Tokens : HttpQueue("ip1", token, "A", FALSE)
    \/ \E request \in pending : MediaResolved(request, [src |-> request.src])
    \/ \E token \in Tokens, itemId \in ItemIds : HttpDelete("ip1", token, itemId)

DeleteSpec == InitWith({0, 1}, {<<3, 5>>}, {""}, {"good"}) /\ [][DeleteNext]_vars

\* One participant of one address who uses every HTTP route, with and without
\* a token, and admins who ban the address.
HttpNext ==
    \/ \E token \in AnyToken, banger \in BOOLEAN :
          playback.nextId <= 2 /\ HttpQueue("ip1", token, IF banger THEN "" ELSE "A", banger)
    \/ \E request \in pending : MediaResolved(request, [src |-> "A"])
    \/ \E token \in AnyToken, itemId \in 1..2 : HttpDelete("ip1", token, itemId)
    \/ \E token \in AnyToken, key \in SkipKeys : HttpSkip("ip1", token, key)
    \/ \E token \in AnyToken : HttpEcho("ip1", token, 1, 1)
    \/ \E token \in AnyToken : HttpAuthorize("ip1", token, "good")
    \/ \E token \in AnyToken : HttpCommand("ip1", token, "ban", "ann")
    \/ \E s \in Sockets : AuthMessage(s, "good")
    \/ \E s \in Sockets : CommandMessage(s, "ban", "ann")
    \/ Joining({"ip1"}, {"ann"}, {""})
    \/ Ticketing({"ip1"}, {"ann"})
    \/ Refusing({"ip1"})

HttpSpec == InitWith({0, 1}, {<<1, 1>>}, {""}, {"good"}) /\ [][HttpNext]_vars

\* A participant who authorises, bans, leaves echoes and queues one media,
\* while the clock runs, the state is saved and the process restarts.
PersistNext ==
    \/ Joining({"ip1"}, {"ann"}, {""})
    \/ Ticketing({"ip1"}, {"ann"})
    \/ \E s \in Sockets : AuthMessage(s, "good")
    \/ \E token \in Tokens : HttpAuthorize("ip1", token, "good")
    \/ Commanding({"ip1"}, {"ban"}, {"ann"})
    \/ \E s \in Sockets : EchoMessage(s, 1, 1)
    \/ \E token \in Tokens : HttpEcho("ip1", token, 1, 1)
    \/ \E token \in Tokens : playback.nextId <= 2 /\ HttpQueue("ip1", token, "A", FALSE)
    \/ \E request \in pending : MediaResolved(request, [src |-> request.src])
    \/ Persisting

PersistSpec == InitWith({0, 1}, {<<3, 5>>}, {""}, {"good"}) /\ [][PersistNext]_vars

\* Sessions of one address with an admin who bans; the timers of the event
\* loop fire and the close event of a socket the host closed arrives.
BanNext ==
    \/ Joining({"ip1"}, {"ann"}, {""})
    \/ Ticketing({"ip1"}, {"ann"})
    \/ Leaving
    \/ \E s \in Sockets : AuthMessage(s, "good")
    \/ \E token \in Tokens : HttpAuthorize("ip1", token, "good")
    \/ Commanding({"ip1"}, {"ban"}, {"ann"})

ClosingArrives(s) ==
    /\ socket[s].phase = "closing"
    /\ \E code \in CloseCodes : SocketClose(s, code)

BanSpec ==
    /\ InitWith({0, 1}, {<<3, 5>>}, {""}, {"good"})
    /\ [][BanNext]_vars
    /\ WF_vars(TimerFire)
    /\ \A s \in Sockets : WF_vars(ClosingArrives(s))

\* Hosts with and without an auth password: participants who present no
\* password, the right one or a wrong one, and admins who name and unname djs.
AuthNext ==
    \/ Joining({"ip1"}, {"ann"}, {""})
    \/ Ticketing({"ip1"}, {"ann"})
    \/ Leaving
    \/ Authorising({"ip1"})
    \/ Commanding({"ip1"}, {"dj-add", "dj-del"}, {"ann"})

AuthSpec == InitWith({0, 1}, {<<3, 5>>}, {""}, {"", "good"}) /\ [][AuthNext]_vars

\* Participants of one address who queue media of two sources.
QueueNext ==
    \/ Joining({"ip1"}, {"ann"}, {""})
    \/ Ticketing({"ip1"}, {"ann"})
    \/ Queueing({"ip1"}, Sources)
    \/ Bangers({"ip1"})

QueueSpec == InitWith({0, 1}, {<<3, 5>>}, {""}, {""}) /\ [][QueueNext]_vars

\* Participants, of whom some authorise as admins, who leave echoes.
EchoNext ==
    \/ Joining({"ip1"}, {"ann"}, {""})
    \/ Ticketing({"ip1"}, {"ann"})
    \/ Authorising({"ip1"})
    \/ Echoing({"ip1"})

EchoSpec == InitWith({0, 1}, {<<3, 5>>}, {""}, {"good"}) /\ [][EchoNext]_vars

\* Joins, resumes and closes alone, with the timers of the event loop firing:
\* a pending setTimeout callback is eventually run.
LiveNext ==
    \/ Joining({"ip1"}, {"ann"}, {""})
    \/ Ticketing({"ip1"}, {"ann"})
    \/ Leaving

LiveSpec ==
    /\ InitWith({0, 1}, {<<3, 5>>}, {""}, {""})
    /\ [][LiveNext]_vars
    /\ WF_vars(TimerFire)

\* ---------------------------------------------------------------- votes
BroadcastCount(log) == Len(SelectSeq(log, LAMBDA m : m.type # "response"))

\* C1: a vote on the playing item force-skips it exactly when the distinct ids
\* that voted for it, this vote included, number at least N x T for the N
\* registered users (a whole number reaches ceil(N x T) exactly when it
\* reaches N x T); below that the item keeps playing and the only broadcast
\* is the running tally.
C1_VoteThreshold ==
    [][op'.name = "voteSkip" =>
            LET cast == Cardinality(votes \cup {op'.user})
                t == opts.voteSkipThreshold
            IN  IF cast * t[2] >= Cardinality(zoneUsers) * t[1]
                THEN /\ playback'.currentItem # playback.currentItem
                     /\ Head(sent').text = "voted to skip"
                ELSE /\ playback' = playback
                     /\ BroadcastCount(sent') = 1
                     /\ Head(sent').text = "votes to skip"
                     /\ Head(sent').id = cast]_vars

\* C1 witness: with two registered users and the 3/5 threshold the second
\* distinct vote has just forced the skip.
C1_Witness ==
    /\ op.name = "voteSkip"
    /\ opts.voteSkipThreshold = <<3, 5>>
    /\ Cardinality(zoneUsers) = 2
    /\ Head(sent).text = "voted to skip"
    /\ playback.currentItem = NoItem

\* C2: a vote from a user id that already voted for the playing item counts
\* for nothing: if the item keeps playing, the skip-vote set and the reported
\* tally are what they were, and the item is skipped by such a vote only if
\* the ids that had voted before it already reach N x T (users have left).
\* Throughout play the set holds each id that voted for the item once.
C2_VoteOnce ==
    [][/\ (op'.name = "voteSkip" /\ op'.user \in votes) =>
            IF playback'.currentItem = playback.currentItem
            THEN skips' = skips /\ Head(sent').id = Cardinality(skips)
            ELSE Cardinality(votes) * opts.voteSkipThreshold[2]
                    >= Cardinality(zoneUsers) * opts.voteSkipThreshold[1]
       /\ playback'.currentItem # NoItem => skips' = votes']_vars

\* C2 witness: of two registered users the one who voted has voted again, and
\* the tally still reads one.
C2_Witness ==
    /\ op.name = "voteSkip"
    /\ op.arg = 1
    /\ Cardinality(zoneUsers) = 2
    /\ skips = {op.user}
    /\ Head(sent).text = "votes to skip"
    /\ Head(sent).id = 1
    /\ playback.currentItem # NoItem

\* ------------------------------------------------------------- sessions
TokensOf(u, map) == {tk \in DOMAIN map : map[tk] = u}

\* C4: the close of a bound socket with code 1000 or 1001 removes its user in
\* that step: afterwards the user is in neither the registry nor the
\* connection tables and no token resolves to it, and a user that was still
\* registered is announced to every connection entry with one 'leave'.
C4_CleanClose ==
    [][(op'.name = "close" /\ op'.arg \in {1000, 1001}) =>
            LET u == op'.user
            IN  /\ u \notin zoneUsers'
                /\ u \notin DOMAIN connections'
                /\ userToConnections'[u] = {}
                /\ u \notin DOMAIN userToToken'
                /\ TokensOf(u, tokenToUser') = {}
                /\ u \in zoneUsers =>
                        sent' = <<Msg("leave", MapValues(connections), "", u)>>]_vars

\* C4 witness: a socket has just closed with code 1001 and its user, who had
\* a token, is gone with a 'leave'.
C4_Witness ==
    /\ op.name = "close"
    /\ op.arg = 1001
    /\ op.user \notin zoneUsers
    /\ sent # <<>>
    /\ Head(sent).type = "leave"
    /\ Head(sent).id = op.user

\* C5: a grace timer removes the user only if no channel was rebound to the
\* user between the unclean close that started the timer and its firing.
C5_TimerOnlyWithoutRebind ==
    [][(op'.name = "timeout" /\ op'.user \in zoneUsers /\ op'.user \notin zoneUsers')
            => ~Head(timers).rebound]_vars

\* C7: the ban table only grows; a socket arriving from a banned address gets
\* 'reject' and is closed at once, with no user, token or connection table
\* touched; a closed socket never changes again, so it is never bound.
C7_BannedRejected ==
    [][/\ bans \subseteq bans'
       /\ (op'.name = "waitJoin" /\ socket'[op'.arg].ip \in bans) =>
            /\ socket'[op'.arg].phase = "closed"
            /\ socket'[op'.arg].user = Nil
            /\ sent' = <<Msg("reject", {op'.arg}, "you are banned", 0)>>
            /\ <<zoneUsers, user, connections, userToConnections, tokenToUser,
                 userToToken, lastUserId>>' =
               <<zoneUsers, user, connections, userToConnections, tokenToUser,
                 userToToken, lastUserId>>
       /\ \A s \in Sockets : socket[s].phase = "closed" => socket'[s] = socket[s]]_vars

\* C7 witness: a socket from a banned address was just rejected while a user
\* of that address still holds a valid token.
C7_Witness ==
    /\ op.name = "waitJoin"
    /\ socket[op.arg].phase = "closed"
    /\ socket[op.arg].ip \in bans
    /\ sent # <<>>
    /\ Head(sent).type = "reject"
    /\ \E u \in zoneUsers : userToIp[u] = socket[op.arg].ip /\ u \in DOMAIN userToToken

Awaited(u) == \E i \in 1..Len(timers) : timers[i].user = u

\* C6: a registered user left without a channel by an unclean close, with its
\* grace timer pending, is eventually removed unless a channel rebinds to it;
\* the timer step that removes it broadcasts 'leave' to every connection entry
\* and leaves no token resolving to it.
C6_GraceRemoval ==
    /\ \A u \in Users :
          (u \in zoneUsers /\ userToConnections[u] = {} /\ Awaited(u))
              ~> (u \notin zoneUsers \/ userToConnections[u] # {})
    /\ [][(op'.name = "timeout" /\ op'.user \in zoneUsers /\ userToConnections[op'.user] = {}) =>
            /\ op'.user \notin zoneUsers'
            /\ sent' = <<Msg("leave", MapValues(connections), "", op'.user)>>
            /\ op'.user \notin DOMAIN userToToken'
            /\ TokensOf(op'.user, tokenToUser') = {}]_vars

\* C6 witness: the grace timer has just removed a user nobody rebound to.
C6_Witness ==
    /\ op.name = "timeout"
    /\ op.user \notin zoneUsers
    /\ sent # <<>>
    /\ Head(sent).type = "leave"
    /\ Head(sent).id = op.user
    /\ lastUserId = 1

\* --------------------------------------------------------------- resume
Resumes(o) ==
    /\ o.name = "join"
    /\ revision = 0
    /\ o.arg # Nil
    /\ o.arg \in DOMAIN tokenToUser
    /\ tokenToUser[o.arg] \in zoneUsers

\* C3: a join presenting a token that resolves to a registered user binds the
\* waiting socket to that user: no id is allocated, the registry, the user's
\* tags and position, the playing item and the queue with the owners of their
\* items, and the token table stay as they were, and neither a 'user' nor a
\* 'leave' message is sent.
C3_ResumeKeepsUser ==
    [][Resumes(op') =>
            LET u == tokenToUser[op'.arg]
            IN  /\ op'.user = u
                /\ \E s \in Sockets : /\ socket[s].phase = "waiting"
                                      /\ socket'[s].phase = "bound"
                                      /\ socket'[s].user = u
                                      /\ connections'[u] = s
                /\ lastUserId' = lastUserId
                /\ zoneUsers' = zoneUsers
                /\ user'[u].tags = user[u].tags
                /\ user'[u].position = user[u].position
                /\ playback' = playback
                /\ tokenToUser' = tokenToUser
                /\ \A i \in 1..Len(sent') : sent'[i].type \notin {"user", "leave"}]_vars

\* C3 witness: the only user ever allocated, an admin who moved and owns the
\* playing item, has just resumed on the second socket while its grace timer
\* is pending.
C3_Witness ==
    /\ op.name = "join"
    /\ op.user = 1
    /\ lastUserId = 1
    /\ socket[2].phase = "bound"
    /\ socket[2].user = 1
    /\ timers # <<>>
    /\ Head(timers).rebound
    /\ Includes(user[1].tags, "admin")
    /\ user[1].position = 1
    /\ playback.currentItem.info.userId = 1
    /\ \A i \in 1..Len(sent) : sent[i].type \notin {"user", "leave"}

\* ------------------------------------------------------ duplicate media
Pends(queue, src) == \E i \in 1..Len(queue) : queue[i].media.src = src

Refused(log) ==
    IF revision = 0
    THEN thrown' \/ (log # <<>> /\ log[Len(log)].type = "status"
                               /\ log[Len(log)].text = "is already queued")
    ELSE log # <<>> /\ log[Len(log)].type = "response" /\ log[Len(log)].id \in {400, 403}

\* C8: when the lookup of an enqueue request finds a media whose identity is
\* that of an item pending in the queue, the request is refused (a private
\* status in revision 0, a 400 or 403 response in revision 1) and the playing
\* item, the queue and the item counter are unchanged; nothing is broadcast.
C8_DuplicateRefused ==
    [][(op'.name = "resolved" /\ op'.arg # "" /\ Pends(playback.queue, op'.arg)) =>
            /\ playback' = playback
            /\ Refused(sent')
            /\ BroadcastCount(sent') = IF revision = 0 /\ ~thrown' THEN 1 ELSE 0]_vars

\* C8 witness: with one item playing and another pending, a request for the
\* media of the pending one has just been refused.
C8_Witness ==
    /\ op.name = "resolved"
    /\ playback.currentItem # NoItem
    /\ Len(playback.queue) = 1
    /\ playback.queue[1].media.src = op.arg
    /\ playback.currentItem.media.src # op.arg
    /\ playback.nextId = 3
    /\ sent # <<>>
    /\ \/ sent[Len(sent)].text = "is already queued"
       \/ sent[Len(sent)].id = 400

\* --------------------------------------------------------------- echoes
AdminEcho(position) ==
    position \in DOMAIN echoes /\ Includes(echoes[position].tags, "admin")

\* C9: an echo stored with the admin tag changes or disappears only in an
\* echo submission by an actor holding the admin tag; a submission at its
\* position by an actor without the tag leaves the echo map as it was and
\* sends no 'echoes' message.
C9_AdminEchoGuarded ==
    [][/\ \A position \in Positions :
            (AdminEcho(position) /\ (position \notin DOMAIN echoes'
                                     \/ echoes'[position] # echoes[position])) =>
                /\ op'.name = "echo"
                /\ op'.arg[2] = position
                /\ Includes(user[op'.user].tags, "admin")
       /\ (op'.name = "echo" /\ AdminEcho(op'.arg[2])
                /\ ~Includes(user[op'.user].tags, "admin")) =>
                /\ echoes' = echoes
                /\ \A i \in 1..Len(sent') : sent'[i].type # "echoes"]_vars

\* C9 witness: an actor without the admin tag has just been refused at the
\* position of an admin's echo.
C9_Witness ==
    /\ op.name = "echo"
    /\ op.arg[2] \in DOMAIN echoes
    /\ Includes(echoes[op.arg[2]].tags, "admin")
    /\ echoes[op.arg[2]].userId # op.user
    /\ ~Includes(user[op.user].tags, "admin")
    /\ sent # <<>>
    /\ \/ sent[1].text = "can't remove admin echo"
       \/ sent[1].id = 403

Permitted(u, position) == ~AdminEcho(position) \/ Includes(user[u].tags, "admin")

\* C10: an echo submission by an actor permitted at the position, with empty
\* text, leaves no echo at the position; with non-empty text it leaves there
\* the actor's echo with the text cut to 512 characters. Echoes at other
\* positions stay, and the change is broadcast.
C10_EchoSetOrDelete ==
    [][(op'.name = "echo" /\ Permitted(op'.user, op'.arg[2])) =>
            LET text == op'.arg[1]
                position == op'.arg[2]
                u == op'.user
            IN  /\ \A p \in Positions \ {position} :
                      /\ p \in DOMAIN echoes' <=> p \in DOMAIN echoes
                      /\ p \in DOMAIN echoes => echoes'[p] = echoes[p]
                /\ IF text = 0
                   THEN /\ position \notin DOMAIN echoes'
                        /\ Head(sent') = Msg("echoes", MapValues(connections), "removed", position)
                   ELSE /\ position \in DOMAIN echoes'
                        /\ echoes'[position] =
                              [userId |-> u, name |-> user[u].name, tags |-> user[u].tags,
                               position |-> position,
                               text |-> IF text > EchoTextLimit THEN EchoTextLimit ELSE text]
                        /\ Head(sent') = Msg("echoes", MapValues(connections), "added", position)]_vars

\* C10 witness: an empty submission has just cleared its position while the
\* echo at the other position, cut to 512 characters, stays.
C10_Witness ==
    /\ op.name = "echo"
    /\ op.arg[1] = 0
    /\ op.arg[2] \notin DOMAIN echoes
    /\ DOMAIN echoes # {}
    /\ \A p \in DOMAIN echoes : echoes[p].text = EchoTextLimit
    /\ sent # <<>>
    /\ Head(sent).text = "removed"

\* ------------------------------------------------------------ user ids
\* C11: the id counter never decreases; a user enters the registry only with
\* the id that follows the counter, which the same step advances, and every
\* registered id is at most the counter: ids are pairwise distinct over all
\* users ever created and the id of a removed user never comes back.
C11_UserIdsFresh ==
    [][/\ lastUserId' >= lastUserId
       /\ zoneUsers' \ zoneUsers \subseteq {lastUserId + 1}
       /\ zoneUsers' \ zoneUsers # {} => lastUserId' = lastUserId + 1
       /\ zoneUsers' \subseteq 1..lastUserId']_vars

\* C11 witness: the first user was removed and the user who joined after
\* that has the second id.
C11_Witness ==
    /\ op.name = "join"
    /\ op.user = 2
    /\ lastUserId = 2
    /\ zoneUsers = {2}

\* --------------------------------------------------------------- tokens
\* C12: the token tables are a bijection between the valid tokens and the
\* registered users: every token resolves to a registered user whose own
\* token it is, and every registered user has exactly one token resolving
\* to it.
C12_TokenBijection ==
    /\ \A tk \in DOMAIN tokenToUser :
          /\ tokenToUser[tk] \in zoneUsers
          /\ tokenToUser[tk] \in DOMAIN userToToken
          /\ userToToken[tokenToUser[tk]] = tk
    /\ \A u \in zoneUsers :
          /\ u \in DOMAIN userToToken
          /\ TokensOf(u, tokenToUser) = {userToToken[u]}
    /\ DOMAIN userToToken = zoneUsers

\* C12 witness: the grace timer has removed the first user and the second,
\* still registered, holds the only valid token.
C12_Witness ==
    /\ op.name = "timeout"
    /\ op.user = 1
    /\ zoneUsers = {2}
    /\ DOMAIN tokenToUser = {userToToken[2]}
    /\ tokenToUser[userToToken[2]] = 2

\* A token issued earlier (the n-th token went to the n-th user) that no
\* longer resolves.
Revoked(tk) == tk \in 1..lastUserId /\ tk \notin DOMAIN tokenToUser

\* C13: the step that removes a user leaves no token resolving to it, and a
\* revoked token stays revoked; a join presenting one is given the next id,
\* enters the registry and is announced with 'user' to every connection
\* entry; an HTTP request bearing one is answered 401 (403 to a banned
\* address in revision 1) and no route handler runs for it.
C13_RevokedTokenUnknown ==
    [][/\ \A u \in zoneUsers \ zoneUsers' : TokensOf(u, tokenToUser') = {}
       /\ \A tk \in Tokens : Revoked(tk) => tk \notin DOMAIN tokenToUser'
       /\ (op'.name = "join" /\ revision = 0 /\ Revoked(op'.arg)) =>
            /\ op'.user = lastUserId + 1
            /\ lastUserId' = lastUserId + 1
            /\ zoneUsers' = zoneUsers \cup {op'.user}
            /\ userToToken'[op'.user] # op'.arg
            /\ \E i \in 1..Len(sent') :
                  sent'[i] = Msg("user", MapValues(connections'), "join", op'.user)
       /\ (op'.name = "refused" /\ Revoked(op'.arg[2])) =>
            /\ sent' = <<Msg("response", {}, "",
                             IF revision = 1 /\ op'.arg[1] \in bans THEN 403 ELSE 401)>>
            /\ <<zoneUsers, user, tokenToUser, userToToken, connections, bans, playback>>'
                  = <<zoneUsers, user, tokenToUser, userToToken, connections, bans, playback>>
       /\ op'.name \in {"auth", "command"} /\ revision = 1 => op'.user \in DOMAIN userToToken]_vars

\* C13 witness: a join presenting the token of the removed first user has
\* just been given the second id.
C13_Witness ==
    /\ op.name = "join"
    /\ revision = 0
    /\ op.arg = 1
    /\ op.user = 2
    /\ zoneUsers = {2}
    /\ 1 \notin DOMAIN tokenToUser
    /\ userToToken[2] = 2

\* ---------------------------------------------------------- queue limit
PendingFrom(queue, ip) == Len(SelectSeq(queue, LAMBDA item : item.info.ip = ip))

HasTag(u, tag) == Includes(user[u].tags, tag)

\* C14: the number of pending items recorded for an address grows past
\* perUserQueueLimit only by an enqueue of a dj during event mode; as long as
\* nobody has been made a dj, every address stays within the limit.
C14_QueueLimit ==
    /\ []((\A u \in Users : ~HasTag(u, "dj")) =>
            \A ip \in Ips : PendingFrom(playback.queue, ip) <= opts.perUserQueueLimit)
    /\ [][\A ip \in Ips :
            PendingFrom(playback'.queue, ip) > PendingFrom(playback.queue, ip) =>
                \/ PendingFrom(playback'.queue, ip) <= opts.perUserQueueLimit
                \/ op'.name = "resolved" /\ eventMode /\ HasTag(op'.user, "dj")]_vars

\* C14 witness: outside event mode, with one item pending for the address and
\* a limit of one, a request for another media has just been refused.
C14_Witness ==
    /\ op.name = "resolved"
    /\ ~eventMode
    /\ \A u \in Users : ~HasTag(u, "dj")
    /\ opts.perUserQueueLimit = 1
    /\ playback.currentItem # NoItem
    /\ Len(playback.queue) = 1
    /\ playback.queue[1].media.src # op.arg
    /\ playback.nextId = 3
    /\ sent # <<>>
    /\ \/ sent[Len(sent)].text = "you already have videos in the queue"
       \/ sent[Len(sent)].id = 400

\* ------------------------------------------------------- admin commands
\* C15: a command request from a caller without the admin tag changes
\* nothing: the ban table, event mode, every user's name, tags and position,
\* the registry, the sockets, the skip votes and playback are as before;
\* nothing is sent in revision 0 and the response is 403 in revision 1.
C15_CommandsNeedAdmin ==
    [][(op'.name = "command" /\ ~HasTag(op'.user, "admin")) =>
            /\ <<bans, eventMode, user, zoneUsers, socket, skips, playback, tokenToUser>>'
                  = <<bans, eventMode, user, zoneUsers, socket, skips, playback, tokenToUser>>
            /\ sent' = IF revision = 0 THEN <<>>
                       ELSE <<Msg("response", {}, "", 403)>>]_vars

\* C15 witness: while media plays and another user is an admin, a caller
\* without the tag has just asked to ban a registered user by name, and
\* nobody is banned.
C15_Witness ==
    /\ op.name = "command"
    /\ op.arg = <<"ban", "ann">>
    /\ ~HasTag(op.user, "admin")
    /\ \E u \in zoneUsers : u # op.user /\ HasTag(u, "admin") /\ user[u].name = "ann"
    /\ playback.currentItem # NoItem
    /\ bans = {}

NoSuchUser(name) == \A u \in zoneUsers : user[u].name # name

\* C16: a ban, dj-add, dj-del or despawn command of an admin whose target
\* name is that of no registered user changes no state and sends one private
\* reply to the caller (a status on the caller's channel in revision 0, the
\* 503 response carrying the error in revision 1) and nothing to anyone else.
C16_MissingTargetReply ==
    [][(/\ op'.name = "command"
        /\ HasTag(op'.user, "admin")
        /\ op'.arg[1] \in TargetCommands
        /\ NoSuchUser(op'.arg[2])) =>
            /\ <<bans, eventMode, user, zoneUsers, socket, skips, playback, tokenToUser>>'
                  = <<bans, eventMode, user, zoneUsers, socket, skips, playback, tokenToUser>>
            /\ Len(sent') = 1
            /\ IF revision = 0
               THEN /\ sent'[1].type = "status"
                    /\ op'.user \in DOMAIN connections
                    /\ sent'[1].to = {connections[op'.user]}
               ELSE sent'[1] = Msg("response", {}, "", 503)]_vars

\* ----------------------------------------------------------- event mode
ItemsOf(p) == (IF p.currentItem = NoItem THEN {} ELSE {p.currentItem})
                  \cup {p.queue[i] : i \in 1..Len(p.queue)}

\* C17: in event mode the lookup of an enqueue request (by path or banger)
\* of a user without the dj tag ends in a refusal and leaves playback as it
\* was; that of a user with the dj tag, for a media not pending already, adds
\* the item whatever the number of items pending for the address.
C17_EventModeQueue ==
    [][(op'.name = "resolved" /\ op'.arg # "" /\ eventMode) =>
            IF ~HasTag(op'.user, "dj")
            THEN /\ playback' = playback
                 /\ ~thrown' => /\ sent' # <<>>
                                /\ sent'[Len(sent')].type = IF revision = 0 THEN "status" ELSE "response"
                                /\ revision = 0 => sent'[Len(sent')].text = "only djs may queue"
                                /\ revision = 1 => sent'[Len(sent')].id \in {400, 403}
            ELSE ~Pends(playback.queue, op'.arg) =>
                 /\ playback'.nextId = playback.nextId + 1
                 /\ \E item \in ItemsOf(playback') \ ItemsOf(playback) :
                       /\ item.itemId = playback.nextId
                       /\ item.media.src = op'.arg
                       /\ item.info.userId = op'.user]_vars

\* C17 witness: in event mode, under a limit of one item per address, the
\* enqueue of a dj has just left two items pending for the address.
C17_Witness ==
    /\ op.name = "resolved"
    /\ eventMode
    /\ HasTag(op.user, "dj")
    /\ opts.perUserQueueLimit = 1
    /\ PendingFrom(playback.queue, "ip1") = 2
    /\ playback.queue[2].info.userId = op.user
    /\ playback.queue[2].media.src = op.arg

\* The request names the playing item: by its media source in revision 0, by
\* its item id in revision 1.
SkipsCurrent(o) ==
    \/ o.name = "voteSkip"
    \/ /\ o.name = "skip"
       /\ playback.currentItem # NoItem
       /\ o.arg = IF revision = 0 THEN playback.currentItem.media.src
                  ELSE playback.currentItem.itemId

\* C18: in event mode a skip request for the playing item from a user with
\* the dj tag skips it at once, and one from a user without the tag is taken
\* as a vote: the user's id joins the skip votes (or the vote reaches the
\* threshold and the item is skipped).
C18_EventModeSkip ==
    [][(eventMode /\ SkipsCurrent(op')) =>
            IF HasTag(op'.user, "dj")
            THEN playback'.currentItem # playback.currentItem
            ELSE \/ op'.user \in skips'
                 \/ playback'.currentItem # playback.currentItem]_vars

\* ------------------------------------------------------- join password
\* C19: with a join password configured, a join whose password is not the
\* configured one binds nothing, with or without a token: its socket gets
\* 'reject' and is closed, no id is allocated and no registry, token or
\* connection table changes; a join with the right password is bound.
C19_JoinPassword ==
    [][(op'.name = "join" /\ revision = 0 /\ opts.joinPassword # "") =>
            \E s \in Sockets :
                /\ socket[s].phase = "waiting"
                /\ socket'[s].phase # "waiting"
                /\ IF op'.password = opts.joinPassword
                   THEN socket'[s].phase = "bound" /\ socket'[s].user = op'.user
                   ELSE /\ socket'[s].phase = "closed"
                        /\ socket'[s].user = Nil
                        /\ sent' = <<Msg("reject", {s}, "rejected: password required", 0)>>
                        /\ <<lastUserId, zoneUsers, user, tokenToUser, userToToken,
                             connections, userToConnections>>'
                              = <<lastUserId, zoneUsers, user, tokenToUser, userToToken,
                                  connections, userToConnections>>]_vars

\* ------------------------------------------------------------- fan-out
\* The open channels bound to a registered user.
OpenChannels == UNION {userToConnections[u] : u \in zoneUsers}

\* A message that only sendAll sends.
Broadcast(m) ==
    \/ m.type = "user"
    \/ m.type = "echoes" /\ m.text \in {"added", "removed"}

\* C20: a broadcast of a handler that opens and closes no channel (a user
\* update, an authorisation, an echo) goes to every open channel bound to a
\* registered user, each channel of a user with several included.
C20_BroadcastReachesAll ==
    [][op'.name \in {"user", "auth", "echo"} =>
            \A i \in 1..Len(sent') :
                Broadcast(sent'[i]) => OpenChannels \subseteq sent'[i].to]_vars

\* ------------------------------------------------------- last channel
\* C21: the close of one channel of a registered user who has another channel
\* still open, with a clean or an unclean code, leaves the user registered
\* with its token and broadcasts no 'leave'.
C21_OnlyLastChannelKills ==
    [][(/\ op'.name = "close"
        /\ op'.user \in zoneUsers
        /\ Cardinality(userToConnections[op'.user]) >= 2) =>
            /\ op'.user \in zoneUsers'
            /\ userToToken' = userToToken
            /\ tokenToUser' = tokenToUser
            /\ \A i \in 1..Len(sent') : sent'[i].type # "leave"]_vars

\* --------------------------------------------------------------- delete
PendingIds(queue) == {queue[i].itemId : i \in 1..Len(queue)}

\* C22: a DELETE of a queue item by id leaves the playing item as it is and
\* takes from the queue at most the pending item of that id, keeping the
\* order of the others; when no pending item has the id, playback is
\* unchanged and nothing is broadcast. A playing item is replaced only by a
\* skip: a vote, a dj's or an admin's skip, or the end of the item.
C22_DeleteSparesCurrent ==
    [][/\ op'.name = "delete" =>
            /\ playback'.currentItem = playback.currentItem
            /\ playback'.nextId = playback.nextId
            /\ playback'.queue \in {playback.queue,
                    SelectSeq(playback.queue, LAMBDA item : item.itemId # op'.arg)}
            /\ op'.arg \notin PendingIds(playback.queue) =>
                    /\ playback' = playback
                    /\ BroadcastCount(sent') = 0
       /\ (playback.currentItem # NoItem /\ playback'.currentItem # playback.currentItem) =>
            op'.name \in {"voteSkip", "skip", "finish", "command"}]_vars

\* C22 witness: a DELETE naming the playing item has just been answered while
\* that item plays on and another item is pending.
C22_Witness ==
    /\ op.name = "delete"
    /\ playback.currentItem # NoItem
    /\ op.arg = playback.currentItem.itemId
    /\ Len(playback.queue) = 1
    /\ playback.currentItem.info.userId = op.user

\* --------------------------------------------------------- health check
\* C23: when the periodic check of the queued media learns that an item is
\* 'failed', exactly the pending item of that id leaves the queue: the playing
\* item, the skip votes cast on it, the other pending items and their order
\* are as they were; any other answer leaves playback alone.
C23_FailedItemUnqueued ==
    [][op'.name = "status" =>
            /\ playback'.currentItem = playback.currentItem
            /\ playback'.nextId = playback.nextId
            /\ skips' = skips
            /\ playback'.queue =
                 IF op'.arg[2] = "failed"
                 THEN SelectSeq(playback.queue, LAMBDA item : item.itemId # op'.arg[1])
                 ELSE playback.queue]_vars

\* C23 witness: with one item playing and two pending, the first of the
\* pending ones has just been found failed and taken out of the queue.
C23_Witness ==
    /\ op.name = "status"
    /\ op.arg = <<2, "failed">>
    /\ playback.currentItem.itemId = 1
    /\ PendingIds(playback.queue) = {3}
    /\ \E i \in 1..Len(sent) : sent[i].type = "unqueue" /\ sent[i].id = 2

\* C24: a 'failed' event of the engine ends the playing item only when the
\* item that failed is the playing one; when it names a pending item the
\* playing item plays on.
C24_FailedSkipsOnlyCurrent ==
    [][(/\ op'.name = "failed"
        /\ playback.currentItem # NoItem
        /\ op'.arg # playback.currentItem.itemId) =>
            playback'.currentItem = playback.currentItem]_vars

\* The broadcasts of a log, in the order sent.
Broadcasts(log) == SelectSeq(log, LAMBDA m : m.type # "response")

\* The last handler called skip: the engine's end-of-item timer ran, or one of
\* the messages that skip broadcasts was sent.
SkipCalled(name, log) ==
    \/ name = "finish"
    \/ \E i \in 1..Len(log) :
          /\ log[i].type = "status"
          /\ log[i].text \in {"voted to skip", "skipped", "video failed to load"}

\* C25: when nothing plays and the queue is empty, an accepted enqueue
\* broadcasts 'queue' for the new item and then 'play' for it, in that order,
\* and the item is the playing one; a skip of an item behind which nothing is
\* pending broadcasts the stop (a 'play' with no item) last, and leaves
\* nothing playing and the queue empty.
C25_QueueThenPlayThenStop ==
    [][/\ (/\ op'.name = "resolved"
           /\ playback.currentItem = NoItem
           /\ playback.queue = <<>>
           /\ playback'.nextId # playback.nextId) =>
              LET b == Broadcasts(sent')
              IN  /\ Len(b) = 2
                  /\ b[1].type = "queue" /\ b[1].id = playback.nextId
                  /\ b[2].type = "play" /\ b[2].text = "" /\ b[2].id = playback.nextId
                  /\ playback'.currentItem.itemId = playback.nextId
                  /\ playback'.queue = <<>>
       /\ (/\ SkipCalled(op'.name, sent')
           /\ playback.currentItem # NoItem
           /\ playback.queue = <<>>) =>
              LET b == Broadcasts(sent')
              IN  /\ b # <<>>
                  /\ b[Len(b)].type = "play" /\ b[Len(b)].text = "stop"
                  /\ playback'.currentItem = NoItem
                  /\ playback'.queue = <<>>]_vars

\* C25 witness: the one item ever queued was playing alone, and a vote has
\* just skipped it: the stop was broadcast and nothing plays.
C25_Witness ==
    /\ op.name = "voteSkip"
    /\ SkipCalled(op.name, sent)
    /\ playback = [currentItem |-> NoItem, queue |-> <<>>, nextId |-> 2]
    /\ Broadcasts(sent)[Len(Broadcasts(sent))].text = "stop"

\* C26: after every step that changes the playing item, to the next item or
\* to none, the skip-vote set is empty.
C26_VotesClearedOnChange ==
    [][playback'.currentItem # playback.currentItem => skips' = {}]_vars

\* -------------------------------------------------------- user updates
\* C27: a 'user' message that the schema rejects changes no user record, no
\* registry and no echo; all it sends is one 'reject', to a single channel,
\* which is bound to the sender's user.
C27_InvalidUpdateRejected ==
    [][(op'.name = "user" /\ op'.arg = 0) =>
            /\ user' = user
            /\ zoneUsers' = zoneUsers
            /\ echoes' = echoes
            /\ Len(sent') <= 1
            /\ \A i \in 1..Len(sent') :
                  /\ sent'[i].type = "reject"
                  /\ \E s \in Sockets : sent'[i].to = {s} /\ socket[s].user = op'.user]_vars

\* C27 witness: with two users registered and named, one of them has just
\* had an update rejected.
C27_Witness ==
    /\ op.name = "user" /\ op.arg = 0
    /\ Cardinality(zoneUsers) = 2
    /\ \A u \in zoneUsers : user[u].name # "" /\ user[u].position # Nil
    /\ Len(sent) = 1 /\ sent[1].type = "reject"

\* ------------------------------------------------------------- deletion
\* May the user take the item out of the queue: it is the user's own, or the
\* user is an admin, or a dj while event mode is on.
MayDelete(u, item) ==
    \/ item.info.userId = u
    \/ Includes(user[u].tags, "admin")
    \/ eventMode /\ Includes(user[u].tags, "dj")

\* C28: a DELETE for a pending item takes it out of the queue, with an
\* 'unqueue' broadcast, when the caller owns it, is an admin, or is a dj in
\* event mode; for any other caller the queue stays as it was and no
\* 'unqueue' is broadcast.
C28_DeleteNeedsRight ==
    [][op'.name = "delete" =>
          \A i \in 1..Len(playback.queue) :
             playback.queue[i].itemId = op'.arg =>
                IF MayDelete(op'.user, playback.queue[i])
                THEN /\ ~Includes(playback'.queue, playback.queue[i])
                     /\ \E k \in 1..Len(sent') :
                           sent'[k].type = "unqueue" /\ sent'[k].id = op'.arg
                ELSE /\ playback' = playback
                     /\ \A k \in 1..Len(sent') : sent'[k].type # "unqueue"]_vars

\* C28 witness: a user with no tag has just asked to delete the pending item
\* of another user, and the item is still pending.
C28_Witness ==
    /\ op.name = "delete"
    /\ user[op.user].tags = <<>>
    /\ \E i \in 1..Len(playback.queue) :
          /\ playback.queue[i].itemId = op.arg
          /\ playback.queue[i].info.userId # op.user

\* ------------------------------------------------------- HTTP requests
\* What the host holds, the history of the last handler apart.
HostState ==
    <<lastUserId, user, zoneUsers, echoes, tokenToUser, userToToken, userToIp,
      connections, userToConnections, socket, timers, bans, eventMode, skips,
      playback, pending, probes, tickets>>

\* C29: an HTTP request whose token is missing or resolves to no user is
\* answered 401 (403 to a banned address in revision 1) and changes nothing
\* the host holds; every route handler that runs, runs for a user to whom a
\* token resolves.
C29_TokenRequired ==
    [][/\ (op'.name = "refused" /\ op'.arg[2] \notin DOMAIN tokenToUser) =>
             /\ sent' = <<Msg("response", {}, "",
                              IF revision = 1 /\ op'.ip \in bans THEN 403 ELSE 401)>>
             /\ HostState' = HostState
       /\ (op'.ip # "" /\ op'.name # "refused") =>
             \E token \in DOMAIN tokenToUser : tokenToUser[token] = op'.user]_vars

\* C29 witness: while an item plays and another is pending, a request with
\* no token has just been answered 401.
C29_Witness ==
    /\ op.name = "refused"
    /\ op.arg[2] = Nil
    /\ playback.currentItem # NoItem
    /\ playback.queue # <<>>
    /\ zoneUsers # {}
    /\ sent = <<Msg("response", {}, "", 401)>>

\* C30: no route handler runs for an HTTP request that comes from a banned
\* address: such a request is refused by a middleware.
C30_BannedAddressRefused ==
    [][(op'.ip # "" /\ op'.ip \in bans) => op'.name = "refused"]_vars

\* -------------------------------------------------------- admin skip
\* C31: the admin command 'skip' given by an admin while nothing plays raises
\* no error and leaves playback as it was.
C31_IdleSkipHarmless ==
    [][(/\ op'.name = "command"
        /\ op'.arg[1] = "skip"
        /\ Includes(user[op'.user].tags, "admin")
        /\ playback.currentItem = NoItem) =>
            /\ ~thrown'
            /\ playback' = playback]_vars

\* ------------------------------------------------ awaits and removals
\* C32: when the media lookup of a queue request answers after the requesting
\* user left the registry, no item is queued and no error is raised.
C32_RemovedUserQueuesNothing ==
    [][(op'.name = "resolved" /\ op'.user \notin zoneUsers) =>
            /\ playback' = playback
            /\ ~thrown']_vars

\* ------------------------------------------------------------ ordering
\* The ids of the pending items, in queue order.
QueueIds(queue) == [i \in 1..Len(queue) |-> queue[i].itemId]

Ascending(ids) == \A i, j \in 1..Len(ids) : i < j => ids[i] < ids[j]

\* C33: items are enqueued at the tail and promoted from the head, bangers
\* like the rest: the pending items stand in the order they were queued (ids
\* are given in that order) behind the playing item, an item that enters the
\* queue enters at its tail, and the item promoted is the head of the queue.
C33_FifoPromotion ==
    /\ [](/\ Ascending(QueueIds(playback.queue))
          /\ \A i \in 1..Len(playback.queue) :
                playback.currentItem # NoItem /\
                playback.currentItem.itemId < playback.queue[i].itemId)
    /\ [][/\ Len(playback'.queue) > Len(playback.queue) =>
                /\ playback'.queue = Append(playback.queue, playback'.queue[Len(playback'.queue)])
                /\ playback'.queue[Len(playback'.queue)].itemId = playback.nextId
          /\ (playback'.currentItem # playback.currentItem /\ playback.queue # <<>>) =>
                /\ playback'.currentItem = Head(playback.queue)
                /\ playback'.queue = Tail(playback.queue)]_vars

\* C33 witness: a banger was queued behind an item queued before it; the
\* playing item has just ended and that earlier item, not the banger, plays.
C33_Witness ==
    /\ op.name = "finish"
    /\ playback.currentItem.itemId = 2
    /\ ~playback.currentItem.info.banger
    /\ Len(playback.queue) = 1
    /\ playback.queue[1].itemId = 3
    /\ playback.queue[1].info.banger

\* ------------------------------------------------------------ snapshots
\* C34: a process started on the store right after a save holds what was
\* saved: the same ban table, the same echoes under the same positions, the
\* same playing item and pending queue, and the clock at the saved time.
C34_SaveLoadRestores ==
    [][(op.name = "save" /\ op'.name = "restart") =>
            /\ bans' = bans
            /\ echoes' = echoes
            /\ playback'.currentItem = playback.currentItem
            /\ playback'.queue = playback.queue
            /\ clock' = clock]_vars

\* C34 witness: a process has just started on a snapshot that holds a ban,
\* an echo, a playing item part of the way through and a pending item.
C34_Witness ==
    /\ op.name = "restart"
    /\ bans # {}
    /\ DOMAIN echoes # {}
    /\ playback.currentItem # NoItem
    /\ playback.queue # <<>>
    /\ clock > 0
    /\ db = [playback |-> [current |-> playback.currentItem, queue |-> playback.queue,
                           time |-> clock],
             bans |-> {[ip |-> ip] : ip \in bans},
             echoes |-> {echoes[p] : p \in DOMAIN echoes}]

\* ------------------------------------------------------- echo authors
\* C39: the author data an echo holds is as it was when the echo was
\* submitted: a step that is no echo submission (and no restart) changes no
\* stored echo, so a change of the author's tags reaches neither the echo nor
\* its protection.
C39_EchoSnapshot ==
    [][op'.name \notin {"echo", "restart"} => echoes' = echoes]_vars

\* C35: when the check of the queued media learns that an item is 'failed'
\* after the item left the queue (deleted, or promoted to playing), playback
\* is left as it was and nothing is broadcast.
C35_StaleFailureIgnored ==
    [][(/\ op'.name = "status"
        /\ op'.arg[2] = "failed"
        /\ op'.arg[1] \notin PendingIds(playback.queue)) =>
            /\ playback' = playback
            /\ sent' = <<>>]_vars

\* ----------------------------------------------------------------- bans
\* The last handler was the command 'ban' aimed at a registered user.
Banned(u) ==
    /\ op.name = "command"
    /\ op.arg[1] = "ban"
    /\ u \in zoneUsers
    /\ user[u].name = op.arg[2]
    /\ userToIp[u] \in bans
    /\ ~thrown

\* C36: the command 'ban' of an admin aimed at a registered user puts the
\* user's address in the ban table and closes every channel of the user with
\* code 4001, and the user is eventually out of the registry.
C36_BanRemovesUser ==
    /\ [][(/\ op'.name = "command"
           /\ op'.arg[1] = "ban"
           /\ Includes(user[op'.user].tags, "admin")) =>
              \A u \in zoneUsers :
                 (user[u].name = op'.arg[2] /\ userByName(World, op'.arg[2]) = u) =>
                    /\ userToIp[u] \in bans'
                    /\ \A s \in userToConnections[u] : socket'[s].phase = "closing"
                    /\ userToConnections[u] # {} =>
                          \E i \in 1..Len(sent') :
                             sent'[i] = Msg("close", userToConnections[u], "", 4001)]_vars
    /\ \A u \in Users : (Banned(u) /\ userByName(World, op.arg[2]) = u) ~> (u \notin zoneUsers)

\* ------------------------------------------------------ stale channels
\* C37: a 'user' message that the schema rejects, arriving on an open channel
\* of a user who is no longer in the registry, raises no error: the 'reject'
\* reply finds a connection entry and is sent.
C37_StaleChannelReply ==
    [][(op'.name = "user" /\ op'.arg = 0 /\ op'.user \notin zoneUsers) =>
            /\ ~thrown'
            /\ Len(sent') = 1]_vars

\* ------------------------------------------------------------- leaving
\* The 'leave' messages of a log that name the user.
Leaves(log, u) == Len(SelectSeq(log, LAMBDA m : m.type = "leave" /\ m.id = u))

\* C38: 'leave' is sent for a user id only by the step that takes the id out
\* of the registry, and once in that step; an id that enters the registry is
\* a new one, so no id leaves twice.
C38_LeaveOnce ==
    [][/\ \A u \in Users :
             Leaves(sent', u) = IF u \in zoneUsers /\ u \notin zoneUsers' THEN 1 ELSE 0
       /\ \A u \in zoneUsers' \ zoneUsers : u > lastUserId]_vars

\* C38 witness: a clean close has just run killUser for a user who had been
\* removed before, and no 'leave' was sent.
C38_Witness ==
    /\ op.name = "close"
    /\ op.arg \in {1000, 1001}
    /\ op.user # Nil
    /\ op.user \notin zoneUsers
    /\ sent = <<>>

\* ------------------------------------------------------------ admin tag
AdminTags(u) == Len(SelectSeq(user[u].tags, LAMBDA tag : tag = "admin"))

\* C40: a user gains the admin tag only in an authorise step of its own that
\* carried the configured, non-empty auth password; on a host with no auth
\* password nobody ever holds the tag; nobody holds it twice.
C40_AdminByPassword ==
    /\ [](\A u \in Users :
             /\ AdminTags(u) <= 1
             /\ opts.authPassword = "" => AdminTags(u) = 0)
    /\ [][\A u \in Users :
             (AdminTags(u)' > AdminTags(u)) =>
                /\ op'.name = "auth"
                /\ op'.user = u
                /\ opts.authPassword # ""
                /\ op'.password = opts.authPassword]_vars

\* C40 witness: an admin has just authorised again with the right password,
\* and still holds the tag once.
C40_Witness ==
    /\ op.name = "auth"
    /\ op.password = "good"
    /\ AdminTags(op.user) = 1
    /\ \E i \in 1..Len(sent) : sent[i].text = "you are already authorised"

====
